---- MODULE Spec2Model ----
(***************************************************************************)
(* AutoFlowAI: context resolution, prerequisite reconciliation, auto-fix   *)
(* and the generate / precheck handlers, as state machines.                *)
(*                                                                         *)
(* Python values are modelled as strings: NONE is None (also what dict.get *)
(* gives for a key that is not there), "" is the empty string, any other   *)
(* string is a non-empty value.  Request, environment and profile values   *)
(* are the distinct strings "req", "env" and "prof", so that the source a  *)
(* resolved value came from stays visible.                                 *)
(***************************************************************************)
EXTENDS Naturals, Sequences, FiniteSets

VARIABLES
    env,            \* os.environ of the process: env var name -> value
    acct,           \* profiles/account-<active>.json
    uc,             \* profiles/usecase-<active>.json
    remote,         \* what exists in the cloud: [infra, ls, ds, pipelines, triggers, started]
    payload,        \* the request's "context" object
    ctx,            \* the context dict of the running operation
    initial_report, \* the report auto_fix_prereqs is given / generate's `initial`
    pc,             \* the position of the running operation
    stack,          \* return positions of the calls in progress
    items,          \* check_prerequisites: the local list `report`
    report,         \* check_prerequisites: the value it returned last
    actions,        \* auto_fix_prereqs: the local list `actions`
    fixed_any,      \* auto_fix_prereqs: the local flag `fixed_any`
    calls,          \* every credential acquisition and management call issued, in order
    faults,         \* number of remote calls that may still fail
    request,        \* the request being handled: [op, requirement, simulate, auto_fix, now]
    raw,            \* generate: what the text-generation service answered, decoded
    cfg,            \* generate: the configuration call_llm_and_parse returned
    missing_inputs, \* generate / precheck: the keys of the dict `missing_inputs`
    final_report,   \* generate / precheck: `final`
    adf_json,       \* generate: the pipeline document
    files,          \* the artifact store: the files written under output/
    exc,            \* the exception deploy_to_adf raised, NONE when it returned
    deploy_result,  \* what deploy_to_adf returned
    issues,         \* ensure_linked_services_from_config: the local list `issues`
    response,       \* the handler's response
    race            \* two invocations ensuring one remote object: [inv, kind, held, written]

\* the variables of the generate and precheck handlers
handler == <<request, raw, cfg, missing_inputs, final_report, adf_json, files, exc, deploy_result,
             issues, response>>

vars == <<env, acct, uc, remote, payload, ctx, initial_report, pc, stack,
          items, report, actions, fixed_any, calls, faults, handler, race>>

\* the invocations that may run at the same time
Invocations == {1, 2}

\* no concurrent invocation is under way
NoRace ==
    [inv |-> [p \in Invocations |-> [pc |-> "idle", value |-> ""]],
     kind |-> "ls", held |-> <<>>, written |-> <<>>]

----------------------------------------------------------------------------
(* Bounds of the model *)

\* At most this many context keys differ from the baseline of an input.
MaxFocus == 1
\* At most this many remote calls fail in one call of a function checked alone.
MaxFaults == 2
\* At most this many remote calls fail while the service handles a request.
MaxFlowFaults == 1
\* A name, a frequency or a time drawn by character holds at most this many characters.
MaxText == 2
\* At most this many remote calls fail in one call of auto_fix_prereqs: one for each of
\* the four items it may create.
MaxFixFaults == 4

----------------------------------------------------------------------------
(* Python values *)

NONE == "None"
ABSENT == "<no key>"

Truthy(v) == v \notin {NONE, "", ABSENT}

\* Python's `a or b`
Or(a, b) == IF Truthy(a) THEN a ELSE b

\* ', '.join(xs)
RECURSIVE Join(_)
Join(xs) ==
    IF xs = <<>> THEN ""
    ELSE IF Len(xs) = 1 THEN xs[1]
    ELSE xs[1] \o ", " \o Join(Tail(xs))

\* [f(x) for x in xs if keep]: the subsequence of xs whose elements are in S
RECURSIVE Filter(_, _)
Filter(xs, S) ==
    IF xs = <<>> THEN <<>>
    ELSE (IF Head(xs) \in S THEN <<Head(xs)>> ELSE <<>>) \o Filter(Tail(xs), S)

----------------------------------------------------------------------------
(* utils/settings.py *)

BLOB_LS_DEFAULT == "AzureBlobStorageLinkedService"
SNOWFLAKE_LS_DEFAULT == "Snowflake_LS"
SRC_DS_DEFAULT == "SourceDataset"
SNK_DS_DEFAULT == "SinkDataset"

----------------------------------------------------------------------------
(* Keys *)

BootstrapKeys == {"subscription_id", "resource_group", "factory_name"}
SecretKeys == {"storage_account_key", "snowflake_connection_string"}
NameKeys == {"blob_ls_name", "snowflake_ls_name", "source_dataset_name", "sink_dataset_name"}
InputKeys ==
    BootstrapKeys \cup SecretKeys \cup
    {"storage_account_name", "container", "blob_name", "snowflake_schema", "snowflake_table"}
CtxKeys == InputKeys \cup NameKeys

\* the environment variable each context key falls back to
EnvVar ==
    [subscription_id |-> "AZURE_SUBSCRIPTION_ID",
     resource_group |-> "AZURE_RESOURCE_GROUP",
     factory_name |-> "AZURE_FACTORY_NAME",
     storage_account_name |-> "STORAGE_ACCOUNT_NAME",
     storage_account_key |-> "STORAGE_ACCOUNT_KEY",
     container |-> "BLOB_CONTAINER",
     blob_name |-> "BLOB_NAME",
     snowflake_schema |-> "SNOWFLAKE_SCHEMA",
     snowflake_table |-> "SNOWFLAKE_TABLE",
     snowflake_connection_string |-> "SNOWFLAKE_CONNECTION_STRING",
     blob_ls_name |-> "ADF_BLOB_LINKED_SERVICE",
     snowflake_ls_name |-> "ADF_SNOWFLAKE_LINKED_SERVICE"]
EnvVars == {EnvVar[k] : k \in DOMAIN EnvVar}

\* the field of the account / use-case profile document that holds a context key
AcctKeys == {"subscription_id", "resource_group", "factory_name",
             "storage_account_name", "storage_account_key"}
UcField ==
    [container |-> "blob_container",
     blob_name |-> "blob_name",
     snowflake_schema |-> "snowflake_schema",
     snowflake_table |-> "snowflake_table",
     snowflake_connection_string |-> "snowflake_connection_string"]
UcKeys == {UcField[k] : k \in DOMAIN UcField}

getenv(e, name) == e[name]
get(d, k) == IF k \in DOMAIN d /\ d[k] # ABSENT THEN d[k] ELSE NONE

----------------------------------------------------------------------------
(* app.py: merge_context *)

DEFAULTS(e) ==
    [blob_ls |-> Or(getenv(e, "ADF_BLOB_LINKED_SERVICE"), BLOB_LS_DEFAULT),
     snowflake_ls |-> Or(getenv(e, "ADF_SNOWFLAKE_LINKED_SERVICE"), SNOWFLAKE_LS_DEFAULT),
     source_dataset |-> SRC_DS_DEFAULT,
     sink_dataset |-> SNK_DS_DEFAULT]

\* dict.setdefault(k, v): the value under k afterwards
setdefault(d, k, v) == IF d[k] # ABSENT THEN d[k] ELSE v

\* mutant: the storage key and the connection string fall back to the profiles
merge_context_SecretsFromProfile(p, e, a, u) ==
    [k \in CtxKeys |->
        CASE k \in {"subscription_id", "resource_group", "factory_name", "storage_account_name",
                    "storage_account_key"} ->
                setdefault(p, k, Or(getenv(e, EnvVar[k]), get(a, k)))
          [] k \in {"container", "blob_name", "snowflake_schema", "snowflake_table",
                    "snowflake_connection_string"} ->
                setdefault(p, k, Or(getenv(e, EnvVar[k]), get(u, UcField[k])))
          [] k = "blob_ls_name" ->
                setdefault(p, k, Or(getenv(e, EnvVar[k]), DEFAULTS(e).blob_ls))
          [] k = "snowflake_ls_name" ->
                setdefault(p, k, Or(getenv(e, EnvVar[k]), DEFAULTS(e).snowflake_ls))
          [] OTHER -> get(p, k)]

\* a variant in which a profile value goes before the environment
merge_context_ProfileFirst(p, e, a, u) ==
    [k \in CtxKeys |->
        CASE k \in {"subscription_id", "resource_group", "factory_name", "storage_account_name"} ->
                setdefault(p, k, Or(get(a, k), getenv(e, EnvVar[k])))
          [] k \in SecretKeys ->
                setdefault(p, k, getenv(e, EnvVar[k]))
          [] k \in {"container", "blob_name", "snowflake_schema", "snowflake_table"} ->
                setdefault(p, k, Or(get(u, UcField[k]), getenv(e, EnvVar[k])))
          [] k = "blob_ls_name" ->
                setdefault(p, k, Or(getenv(e, EnvVar[k]), DEFAULTS(e).blob_ls))
          [] k = "snowflake_ls_name" ->
                setdefault(p, k, Or(getenv(e, EnvVar[k]), DEFAULTS(e).snowflake_ls))
          [] OTHER -> get(p, k)]

merge_context(p, e, a, u) ==
    [k \in CtxKeys |->
        CASE k \in {"subscription_id", "resource_group", "factory_name", "storage_account_name"} ->
                setdefault(p, k, Or(getenv(e, EnvVar[k]), get(a, k)))
          [] k \in SecretKeys ->
                setdefault(p, k, getenv(e, EnvVar[k]))
          [] k \in {"container", "blob_name", "snowflake_schema", "snowflake_table"} ->
                setdefault(p, k, Or(getenv(e, EnvVar[k]), get(u, UcField[k])))
          [] k = "blob_ls_name" ->
                setdefault(p, k, Or(getenv(e, EnvVar[k]), DEFAULTS(e).blob_ls))
          [] k = "snowflake_ls_name" ->
                setdefault(p, k, Or(getenv(e, EnvVar[k]), DEFAULTS(e).snowflake_ls))
          [] OTHER -> get(p, k)]

----------------------------------------------------------------------------
(* Remote calls *)

\* one entry of the call log: the operation, the object it names, what came back
\* ("ok"; "absent": the service answered that the object is not there; "fail": the
\* call failed for authorization, network or service reasons)
Call(c, t, o) == [call |-> c, target |-> t, outcome |-> o]

RECURSIVE NFail(_)
NFail(cs) ==
    IF cs = <<>> THEN 0
    ELSE (IF Head(cs).outcome = "fail" THEN 1 ELSE 0) + NFail(Tail(cs))

\* the outcomes a remote call may still have: a failure only within the budget
Outcomes(base) == base \cup (IF faults > 0 THEN {"fail"} ELSE {})

\* the infrastructure a context points at, by the name of the report item that checks it
AllInfra == {"subscription", "resource_group", "data_factory", "storage_account",
             "blob_container", "blob_exists"}
\* what the service answers to a lookup of x
Answer(x) == IF x \in remote.infra THEN "ok" ELSE "absent"
\* the outcomes of a create-or-update in the factory: refused when there is no factory
CreateOutcomes == IF "data_factory" \in remote.infra THEN Outcomes({"ok"}) ELSE {"absent"}

MutatingCalls ==
    {"linked_services.create_or_update", "datasets.create_or_update",
     "pipelines.create_or_update", "triggers.create_or_update", "triggers.start"}

\* return from the call in progress
Return == pc' = Head(stack) /\ stack' = Tail(stack)

----------------------------------------------------------------------------
(* pipeline_generator/prereq_checker.py: helpers *)

_ok(item) == [item |-> item, status |-> "present"]
_missing(item) == [item |-> item, status |-> "missing"]
_error(item) == [item |-> item, status |-> "error"]

RECURSIVE WithStatus(_, _)
WithStatus(its, st) ==
    IF its = <<>> THEN <<>>
    ELSE (IF Head(its).status = st THEN <<Head(its)>> ELSE <<>>) \o WithStatus(Tail(its), st)

ItemNames(its) == [i \in DOMAIN its |-> its[i].item]

_finish_ErrorsAsMissing(its) ==
    [summary |-> [present |-> ItemNames(WithStatus(its, "present")),
                  missing |-> WithStatus(its, "missing") \o WithStatus(its, "error"),
                  errors |-> WithStatus(its, "error")],
     items |-> its]

_finish(its) ==
    [summary |-> [present |-> ItemNames(WithStatus(its, "present")),
                  missing |-> WithStatus(its, "missing"),
                  errors |-> WithStatus(its, "error")],
     items |-> its]

\* context.get(k) or os.getenv(K), as both functions resolve their inputs
Resolve(c, e, k) == Or(get(c, k), getenv(e, EnvVar[k]))
blob_ls_name(c, e) == Or(Resolve(c, e, "blob_ls_name"), BLOB_LS_DEFAULT)
snowflake_ls_name(c, e) == Or(Resolve(c, e, "snowflake_ls_name"), SNOWFLAKE_LS_DEFAULT)
source_dataset_name(c) == Or(get(c, "source_dataset_name"), SRC_DS_DEFAULT)
sink_dataset_name(c) == Or(get(c, "sink_dataset_name"), SNK_DS_DEFAULT)

\* the items of a report with status "missing", as auto_fix_prereqs and the handlers read them
missing_items(rep) == {rep.summary.missing[i].item : i \in DOMAIN rep.summary.missing}

----------------------------------------------------------------------------
(* pipeline_generator/prereq_checker.py: check_prerequisites, one action per section *)


\* mutant: the factory name is not among the identifiers the sanity section requires
hard_missing_NoFactory(c, e) ==
    (IF ~Truthy(Resolve(c, e, "subscription_id")) THEN <<_missing("subscription_id")>> ELSE <<>>)
    \o (IF ~Truthy(Resolve(c, e, "resource_group")) THEN <<_missing("resource_group")>> ELSE <<>>)

hard_missing(c, e) ==
    (IF ~Truthy(Resolve(c, e, "subscription_id")) THEN <<_missing("subscription_id")>> ELSE <<>>)
    \o (IF ~Truthy(Resolve(c, e, "resource_group")) THEN <<_missing("resource_group")>> ELSE <<>>)
    \o (IF ~Truthy(Resolve(c, e, "factory_name")) THEN <<_missing("factory_name")>> ELSE <<>>)

\* mutant: the list `report` is not fresh in each call
ChkSanity_KeepsItems ==
    /\ pc = "chk_sanity"
    /\ IF hard_missing(ctx, env) # <<>>
       THEN /\ items' = items \o hard_missing(ctx, env)
            /\ report' = _finish(items')
            /\ Return
       ELSE /\ items' = items
            /\ pc' = "chk_clients"
            /\ UNCHANGED <<report, stack>>
    /\ UNCHANGED <<race, env, acct, uc, remote, payload, ctx, initial_report, actions, fixed_any,
                   calls, faults, handler>>

\* report = []; resolve the configuration; collect the hard-missing identifiers
ChkSanity ==
    /\ pc = "chk_sanity"
    /\ IF hard_missing(ctx, env) # <<>>
       THEN /\ items' = hard_missing(ctx, env)
            /\ report' = _finish(items')
            /\ Return
       ELSE /\ items' = <<>>
            /\ pc' = "chk_clients"
            /\ UNCHANGED <<report, stack>>
    /\ UNCHANGED <<race, env, acct, uc, remote, payload, ctx, initial_report, actions, fixed_any,
                   calls, faults, handler>>

\* the credential and the four management clients

\* mutant: a failed credential acquisition is recorded and the check goes on
ChkClients_GoesOn ==
    /\ pc = "chk_clients"
    /\ \E o \in Outcomes({"ok"}) :
         /\ calls' = Append(calls, Call("credential", "", o))
         /\ faults' = faults - NFail(<<Call("credential", "", o)>>)
         /\ items' = Append(items, IF o = "ok" THEN _ok("credentials") ELSE _error("credentials"))
    /\ pc' = "chk_subscription"
    /\ UNCHANGED <<race, env, acct, uc, remote, payload, ctx, initial_report, stack, report, actions,
                   fixed_any, handler>>

ChkClients ==
    /\ pc = "chk_clients"
    /\ \E o \in Outcomes({"ok"}) :
         /\ calls' = Append(calls, Call("credential", "", o))
         /\ faults' = faults - NFail(<<Call("credential", "", o)>>)
         /\ IF o = "ok"
            THEN /\ items' = Append(items, _ok("credentials"))
                 /\ pc' = "chk_subscription"
                 /\ UNCHANGED <<report, stack>>
            ELSE /\ items' = Append(items, _error("credentials"))
                 /\ report' = _finish(items')
                 /\ Return
    /\ UNCHANGED <<race, env, acct, uc, remote, payload, ctx, initial_report, actions, fixed_any, handler>>

\* the subscription is among the ones the credential can list
ChkSubscription ==
    /\ pc = "chk_subscription"
    /\ \E o \in Outcomes({Answer("subscription")}) :
         /\ calls' = Append(calls, Call("subscriptions.list", "", o))
         /\ faults' = faults - NFail(<<Call("subscriptions.list", "", o)>>)
         /\ IF o = "absent"
            THEN /\ items' = Append(items, _missing("subscription"))
                 /\ report' = _finish(items')
                 /\ Return
            ELSE /\ items' = Append(items, _ok("subscription"))
                 /\ pc' = "chk_providers"
                 /\ UNCHANGED <<report, stack>>
    /\ UNCHANGED <<race, env, acct, uc, remote, payload, ctx, initial_report, actions, fixed_any, handler>>

\* the two provider listings: the second is issued only when the first returned
ProviderCalls ==
    {<<Call("factories.list", "", "ok"), Call("storage_accounts.list", "", "ok")>>,
     <<Call("factories.list", "", "fail")>>,
     <<Call("factories.list", "", "ok"), Call("storage_accounts.list", "", "fail")>>}

ChkProviders ==
    /\ pc = "chk_providers"
    /\ \E cs \in ProviderCalls :
         /\ NFail(cs) <= faults
         /\ calls' = calls \o cs
         /\ faults' = faults - NFail(cs)
         /\ items' = Append(items, IF NFail(cs) = 0 THEN _ok("providers") ELSE _missing("providers"))
    /\ pc' = "chk_resource_group"
    /\ UNCHANGED <<race, env, acct, uc, remote, payload, ctx, initial_report, stack, report, actions,
                   fixed_any, handler>>


\* mutant: an absent resource group is reported and the check goes on to the factory
ChkResourceGroup_GoesOn ==
    /\ pc = "chk_resource_group"
    /\ \E o \in Outcomes({Answer("resource_group")}) :
         /\ calls' = Append(calls, Call("resource_groups.get", "", o))
         /\ faults' = faults - NFail(<<Call("resource_groups.get", "", o)>>)
         /\ items' = Append(items, IF o = "ok" THEN _ok("resource_group")
                                   ELSE _missing("resource_group"))
    /\ pc' = "chk_data_factory"
    /\ UNCHANGED <<race, env, acct, uc, remote, payload, ctx, initial_report, stack, report, actions,
                   fixed_any, handler>>

ChkResourceGroup ==
    /\ pc = "chk_resource_group"
    /\ \E o \in Outcomes({Answer("resource_group")}) :
         /\ calls' = Append(calls, Call("resource_groups.get", "", o))
         /\ faults' = faults - NFail(<<Call("resource_groups.get", "", o)>>)
         /\ IF o = "ok"
            THEN /\ items' = Append(items, _ok("resource_group"))
                 /\ pc' = "chk_data_factory"
                 /\ UNCHANGED <<report, stack>>
            ELSE /\ items' = Append(items, _missing("resource_group"))
                 /\ report' = _finish(items')
                 /\ Return
    /\ UNCHANGED <<race, env, acct, uc, remote, payload, ctx, initial_report, actions, fixed_any, handler>>

ChkDataFactory ==
    /\ pc = "chk_data_factory"
    /\ \E o \in Outcomes({Answer("data_factory")}) :
         /\ calls' = Append(calls, Call("factories.get", "", o))
         /\ faults' = faults - NFail(<<Call("factories.get", "", o)>>)
         /\ IF o = "ok"
            THEN /\ items' = Append(items, _ok("data_factory"))
                 /\ pc' = "chk_storage"
                 /\ UNCHANGED <<report, stack>>
            ELSE /\ items' = Append(items, _missing("data_factory"))
                 /\ report' = _finish(items')
                 /\ Return
    /\ UNCHANGED <<race, env, acct, uc, remote, payload, ctx, initial_report, actions, fixed_any, handler>>

\* mutant: the blob is looked up whether or not the container was found
DataPlane_NoCascade(container_name, blob_name) ==
    {[items |-> <<_error("blob_data_plane")>>,
      calls |-> <<Call("list_containers", "", "fail")>>]}
    \cup
    (IF ~Truthy(container_name)
     THEN {[items |-> <<_missing("container")>>,
            calls |-> <<Call("list_containers", "", "ok")>>]}
     ELSE {[items |-> <<IF "blob_container" \in remote.infra THEN _ok("blob_container")
                        ELSE _missing("blob_container"),
                        IF "blob_exists" \in remote.infra THEN _ok("blob_exists")
                        ELSE _missing("blob_exists")>>,
            calls |-> <<Call("list_containers", container_name, Answer("blob_container")),
                        Call("list_blobs", blob_name, Answer("blob_exists"))>>]})

\* the data-plane part of the storage section: what it may append and call
DataPlane(container_name, blob_name) ==
    {[items |-> <<_error("blob_data_plane")>>,
      calls |-> <<Call("list_containers", "", "fail")>>]}
    \cup
    (IF ~Truthy(container_name)
     THEN {[items |-> <<_missing("container")>>,
            calls |-> <<Call("list_containers", "", "ok")>>]}
     ELSE IF "blob_container" \notin remote.infra
     THEN {[items |-> <<_missing("blob_container")>>,
            calls |-> <<Call("list_containers", container_name, "absent")>>]}
     ELSE IF ~Truthy(blob_name)
     THEN {[items |-> <<_ok("blob_container"), _missing("blob_name")>>,
            calls |-> <<Call("list_containers", container_name, "ok")>>]}
     ELSE {[items |-> <<_ok("blob_container"),
                        IF "blob_exists" \in remote.infra THEN _ok("blob_exists")
                        ELSE _missing("blob_exists")>>,
            calls |-> <<Call("list_containers", container_name, "ok"),
                        Call("list_blobs", blob_name, Answer("blob_exists"))>>],
           [items |-> <<_ok("blob_container"), _error("blob_data_plane")>>,
            calls |-> <<Call("list_containers", container_name, "ok"),
                        Call("list_blobs", blob_name, "fail")>>]})

\* the storage section: account (management plane), then container and blob (data plane)
StorageSection(c, e) ==
    IF ~Truthy(Resolve(c, e, "storage_account_name"))
    THEN {[items |-> <<_missing("storage_account_name")>>, calls |-> <<>>]}
    ELSE LET acctPart ==
                 {[items |-> <<IF o = "ok" THEN _ok("storage_account")
                               ELSE _missing("storage_account")>>,
                   calls |-> <<Call("storage_accounts.get_properties", "", o)>>] :
                  o \in {Answer("storage_account"), "fail"}}
             dataPart ==
                 IF Truthy(Resolve(c, e, "storage_account_key"))
                 THEN DataPlane(Resolve(c, e, "container"), Resolve(c, e, "blob_name"))
                 ELSE {[items |-> <<_missing("storage_account_key")>>, calls |-> <<>>]}
         IN  {[items |-> a.items \o d.items, calls |-> a.calls \o d.calls] :
              a \in acctPart, d \in dataPart}

ChkStorage ==
    /\ pc = "chk_storage"
    /\ \E r \in StorageSection(ctx, env) :
         /\ NFail(r.calls) <= faults
         /\ calls' = calls \o r.calls
         /\ faults' = faults - NFail(r.calls)
         /\ items' = items \o r.items
    /\ pc' = "chk_linked_services"
    /\ UNCHANGED <<race, env, acct, uc, remote, payload, ctx, initial_report, stack, report, actions,
                   fixed_any, handler>>

\* what the linked-services section appends when the listing returned `names`
LinkedServiceItems(c, e, names) ==
    <<IF blob_ls_name(c, e) \in names THEN _ok("blob_linked_service")
      ELSE _missing("blob_linked_service"),
      IF snowflake_ls_name(c, e) \in names THEN _ok("snowflake_linked_service")
      ELSE _missing("snowflake_linked_service")>>


\* mutant: a failed linked-service listing ends the check
ChkLinkedServices_StopsOnError ==
    /\ pc = "chk_linked_services"
    /\ \E o \in Outcomes({"ok"}) :
         /\ calls' = Append(calls, Call("linked_services.list_by_factory", "", o))
         /\ faults' = faults - NFail(<<Call("linked_services.list_by_factory", "", o)>>)
         /\ IF o = "ok"
            THEN /\ items' = items \o LinkedServiceItems(ctx, env, remote.ls)
                 /\ pc' = "chk_datasets"
                 /\ UNCHANGED <<report, stack>>
            ELSE /\ items' = Append(items, _error("linked_services"))
                 /\ report' = _finish(items')
                 /\ Return
    /\ UNCHANGED <<race, env, acct, uc, remote, payload, ctx, initial_report, actions, fixed_any, handler>>

ChkLinkedServices ==
    /\ pc = "chk_linked_services"
    /\ \E o \in Outcomes({"ok"}) :
         /\ calls' = Append(calls, Call("linked_services.list_by_factory", "", o))
         /\ faults' = faults - NFail(<<Call("linked_services.list_by_factory", "", o)>>)
         /\ items' = IF o = "ok" THEN items \o LinkedServiceItems(ctx, env, remote.ls)
                     ELSE Append(items, _error("linked_services"))
    /\ pc' = "chk_datasets"
    /\ UNCHANGED <<race, env, acct, uc, remote, payload, ctx, initial_report, stack, report, actions,
                   fixed_any, handler>>

\* what the datasets section appends when the listing returned `names`
DatasetItems(c, names) ==
    <<IF source_dataset_name(c) \in names THEN _ok("source_dataset")
      ELSE _missing("source_dataset"),
      IF sink_dataset_name(c) \in names THEN _ok("sink_dataset")
      ELSE _missing("sink_dataset")>>

ChkDatasets ==
    /\ pc = "chk_datasets"
    /\ \E o \in Outcomes({"ok"}) :
         /\ calls' = Append(calls, Call("datasets.list_by_factory", "", o))
         /\ faults' = faults - NFail(<<Call("datasets.list_by_factory", "", o)>>)
         /\ items' = IF o = "ok" THEN items \o DatasetItems(ctx, remote.ds)
                     ELSE Append(items, _error("datasets"))
    /\ report' = _finish(items')
    /\ Return
    /\ UNCHANGED <<race, env, acct, uc, remote, payload, ctx, initial_report, actions, fixed_any, handler>>

check_prerequisites ==
    \/ ChkSanity
    \/ ChkClients
    \/ ChkSubscription
    \/ ChkProviders
    \/ ChkResourceGroup
    \/ ChkDataFactory
    \/ ChkStorage
    \/ ChkLinkedServices
    \/ ChkDatasets

----------------------------------------------------------------------------
(* pipeline_generator/prereq_checker.py: auto_fix_prereqs, one action per section *)

\* one entry of `actions`; `error` is the text of the entry ("" when it carries details)
Action(item, action, status, error) ==
    [item |-> item, action |-> action, status |-> status, error |-> error]

\* str(e) of a failed remote call
RemoteError == "remote call failed"

missing_bootstrap(c, e) ==
    (IF ~Truthy(Resolve(c, e, "subscription_id")) THEN <<"subscription_id">> ELSE <<>>)
    \o (IF ~Truthy(Resolve(c, e, "resource_group")) THEN <<"resource_group">> ELSE <<>>)
    \o (IF ~Truthy(Resolve(c, e, "factory_name")) THEN <<"factory_name">> ELSE <<>>)

\* the inputs a section finds absent, in the order it lists them
MissingInputs(c, e, keys) ==
    Filter(keys, {k \in DOMAIN EnvVar : ~Truthy(Resolve(c, e, k))})

\* f"Missing required inputs: {', '.join(miss) or 'unknown'}"
MissingRequiredInputs(miss) == "Missing required inputs: " \o Or(Join(miss), "unknown")

\* actions = []; fixed_any = False; short-circuit on unresolved bootstrap identifiers
FixBootstrap ==
    /\ pc = "fix_bootstrap"
    /\ fixed_any' = FALSE
    /\ IF missing_bootstrap(ctx, env) # <<>>
       THEN /\ actions' = <<Action("bootstrap", "verify_context", "skipped",
                                   "Missing: " \o Join(missing_bootstrap(ctx, env)))>>
            /\ Return
       ELSE /\ actions' = <<>>
            /\ pc' = "fix_clients"
            /\ UNCHANGED stack
    /\ UNCHANGED <<race, env, acct, uc, remote, payload, ctx, initial_report, items, report, calls,
                   faults, handler>>

\* the credential and the factory client
FixClients ==
    /\ pc = "fix_clients"
    /\ \E o \in Outcomes({"ok"}) :
         /\ calls' = Append(calls, Call("credential", "", o))
         /\ faults' = faults - NFail(<<Call("credential", "", o)>>)
         /\ IF o = "ok"
            THEN /\ pc' = "fix_blob_linked_service"
                 /\ UNCHANGED <<actions, stack>>
            ELSE /\ actions' = Append(actions, Action("credentials", "init_clients", "error",
                                                      RemoteError))
                 /\ Return
    /\ UNCHANGED <<race, env, acct, uc, remote, payload, ctx, initial_report, items, report, fixed_any, handler>>

\* One section of the auto-fixer.  `item` is handled only when the report lists it as
\* missing; with `ready` it is created under `name`, else a skipped entry with `text`
\* is appended.  `kind` is "ls" or "ds".

\* mutant: a missing item is created whether or not its inputs are there
FixSection_CreatesWithoutInputs(item, kind, name, ready, text) ==
    IF item \notin missing_items(initial_report)
    THEN UNCHANGED <<remote, actions, fixed_any, calls, faults>>
    ELSE \E o \in CreateOutcomes :
           LET c == Call(IF kind = "ls" THEN "linked_services.create_or_update"
                         ELSE "datasets.create_or_update", name, o)
           IN  /\ calls' = Append(calls, c)
               /\ faults' = faults - NFail(<<c>>)
               /\ IF o = "ok"
                  THEN /\ remote' = [remote EXCEPT ![kind] = @ \cup {name}]
                       /\ actions' = Append(actions, Action(item, "create_or_update", "created", ""))
                       /\ fixed_any' = TRUE
                  ELSE /\ actions' = Append(actions, Action(item, "create_or_update", "error",
                                                            RemoteError))
                       /\ UNCHANGED <<remote, fixed_any>>

\* mutant: an item is handled unless the report lists it as present
FixSection_ActsUnlessPresent(item, kind, name, ready, text) ==
    IF \E i \in DOMAIN initial_report.summary.present : initial_report.summary.present[i] = item
    THEN UNCHANGED <<remote, actions, fixed_any, calls, faults>>
    ELSE IF ready
    THEN \E o \in CreateOutcomes :
           LET c == Call(IF kind = "ls" THEN "linked_services.create_or_update"
                         ELSE "datasets.create_or_update", name, o)
           IN  /\ calls' = Append(calls, c)
               /\ faults' = faults - NFail(<<c>>)
               /\ IF o = "ok"
                  THEN /\ remote' = [remote EXCEPT ![kind] = @ \cup {name}]
                       /\ actions' = Append(actions, Action(item, "create_or_update", "created", ""))
                       /\ fixed_any' = TRUE
                  ELSE /\ actions' = Append(actions, Action(item, "create_or_update", "error",
                                                            RemoteError))
                       /\ UNCHANGED <<remote, fixed_any>>
    ELSE /\ actions' = Append(actions, Action(item, "skipped", "missing_input", text))
         /\ UNCHANGED <<remote, fixed_any, calls, faults>>

FixSection(item, kind, name, ready, text) ==
    IF item \notin missing_items(initial_report)
    THEN UNCHANGED <<remote, actions, fixed_any, calls, faults>>
    ELSE IF ready
    THEN \E o \in CreateOutcomes :
           LET c == Call(IF kind = "ls" THEN "linked_services.create_or_update"
                         ELSE "datasets.create_or_update", name, o)
           IN  /\ calls' = Append(calls, c)
               /\ faults' = faults - NFail(<<c>>)
               /\ IF o = "ok"
                  THEN /\ remote' = [remote EXCEPT ![kind] = @ \cup {name}]
                       /\ actions' = Append(actions, Action(item, "create_or_update", "created", ""))
                       /\ fixed_any' = TRUE
                  ELSE /\ actions' = Append(actions, Action(item, "create_or_update", "error",
                                                            RemoteError))
                       /\ UNCHANGED <<remote, fixed_any>>
    ELSE /\ actions' = Append(actions, Action(item, "skipped", "missing_input", text))
         /\ UNCHANGED <<remote, fixed_any, calls, faults>>

\* a variant that returns when the creation of the blob linked service failed
FixBlobLinkedService_StopsOnError ==
    /\ pc = "fix_blob_linked_service"
    /\ FixSection("blob_linked_service", "ls", blob_ls_name(ctx, env),
                  Truthy(Resolve(ctx, env, "storage_account_name"))
                      /\ Truthy(Resolve(ctx, env, "storage_account_key")),
                  MissingRequiredInputs(MissingInputs(ctx, env,
                      <<"storage_account_name", "storage_account_key">>)))
    /\ IF actions' # <<>> /\ actions'[Len(actions')].status = "error"
       THEN Return
       ELSE pc' = "fix_snowflake_linked_service" /\ UNCHANGED stack
    /\ UNCHANGED <<race, env, acct, uc, payload, ctx, initial_report, items, report, handler>>

FixBlobLinkedService ==
    /\ pc = "fix_blob_linked_service"
    /\ FixSection("blob_linked_service", "ls", blob_ls_name(ctx, env),
                  Truthy(Resolve(ctx, env, "storage_account_name"))
                      /\ Truthy(Resolve(ctx, env, "storage_account_key")),
                  MissingRequiredInputs(MissingInputs(ctx, env,
                      <<"storage_account_name", "storage_account_key">>)))
    /\ pc' = "fix_snowflake_linked_service"
    /\ UNCHANGED <<race, env, acct, uc, payload, ctx, initial_report, stack, items, report, handler>>

FixSnowflakeLinkedService ==
    /\ pc = "fix_snowflake_linked_service"
    /\ FixSection("snowflake_linked_service", "ls", snowflake_ls_name(ctx, env),
                  Truthy(Resolve(ctx, env, "snowflake_connection_string")),
                  "snowflake_connection_string not provided")
    /\ pc' = "fix_source_dataset"
    /\ UNCHANGED <<race, env, acct, uc, payload, ctx, initial_report, stack, items, report, handler>>

FixSourceDataset ==
    /\ pc = "fix_source_dataset"
    /\ FixSection("source_dataset", "ds", source_dataset_name(ctx),
                  Truthy(blob_ls_name(ctx, env)) /\ Truthy(Resolve(ctx, env, "container"))
                      /\ Truthy(Resolve(ctx, env, "blob_name")),
                  MissingRequiredInputs(MissingInputs(ctx, env, <<"container", "blob_name">>)))
    /\ pc' = "fix_sink_dataset"
    /\ UNCHANGED <<race, env, acct, uc, payload, ctx, initial_report, stack, items, report, handler>>

\* the last section; returns (fixed_any, actions)
FixSinkDataset ==
    /\ pc = "fix_sink_dataset"
    /\ FixSection("sink_dataset", "ds", sink_dataset_name(ctx),
                  Truthy(snowflake_ls_name(ctx, env)) /\ Truthy(Resolve(ctx, env, "snowflake_schema"))
                      /\ Truthy(Resolve(ctx, env, "snowflake_table")),
                  MissingRequiredInputs(
                      (IF ~Truthy(snowflake_ls_name(ctx, env)) THEN <<"snowflake_ls_name">> ELSE <<>>)
                      \o MissingInputs(ctx, env, <<"snowflake_schema", "snowflake_table">>)))
    /\ Return
    /\ UNCHANGED <<race, env, acct, uc, payload, ctx, initial_report, items, report, handler>>

auto_fix_prereqs ==
    \/ FixBootstrap
    \/ FixClients
    \/ FixBlobLinkedService
    \/ FixSnowflakeLinkedService
    \/ FixSourceDataset
    \/ FixSinkDataset

----------------------------------------------------------------------------
(* Text the code takes apart character by character (pipeline names, schedule *)
(* strings) is a sequence of one-character strings.                           *)

Whitespace == {" ", "\t", "\n"}
Digits == <<"0", "1", "2", "3", "4", "5", "6", "7", "8", "9">>
DigitChars == {Digits[i] : i \in DOMAIN Digits}
UpperToLower == [D |-> "d", A |-> "a", I |-> "i", L |-> "l", Y |-> "y", O |-> "o", N |-> "n",
                 C |-> "c", E |-> "e", M |-> "m", U |-> "u", F |-> "f", S |-> "s", B |-> "b",
                 P |-> "p", H |-> "h", R |-> "r", T |-> "t", W |-> "w", K |-> "k",
                 J |-> "j", Q |-> "q", Z |-> "z", G |-> "g"]
LowerChars == {UpperToLower[c] : c \in DOMAIN UpperToLower}
\* the characters _sanitize_name keeps: [A-Za-z0-9_\-]
NameChars == DOMAIN UpperToLower \cup LowerChars \cup DigitChars \cup {"_", "-"}

\* str.lower()
lower(s) == [i \in DOMAIN s |-> IF s[i] \in DOMAIN UpperToLower THEN UpperToLower[s[i]] ELSE s[i]]

RECURSIVE lstrip(_)
lstrip(s) == IF s # <<>> /\ Head(s) \in Whitespace THEN lstrip(Tail(s)) ELSE s

RECURSIVE rstrip(_)
rstrip(s) == IF s # <<>> /\ s[Len(s)] \in Whitespace THEN rstrip(SubSeq(s, 1, Len(s) - 1)) ELSE s

\* str.strip()
strip(s) == rstrip(lstrip(s))

\* re.sub(r"\s+", "_", s)
RECURSIVE SubWhitespace(_)
SubWhitespace(s) ==
    IF s = <<>> THEN <<>>
    ELSE IF Head(s) \in Whitespace THEN <<"_">> \o SubWhitespace(lstrip(s))
    ELSE <<Head(s)>> \o SubWhitespace(Tail(s))

\* re.sub(r"[^A-Za-z0-9_\-]", "", s)
RECURSIVE DropIllegal(_)
DropIllegal(s) ==
    IF s = <<>> THEN <<>>
    ELSE (IF Head(s) \in NameChars THEN <<Head(s)>> ELSE <<>>) \o DropIllegal(Tail(s))

\* the index of the first occurrence of character c in s, 0 when there is none
RECURSIVE Find(_, _)
Find(s, c) ==
    IF s = <<>> THEN 0
    ELSE IF Head(s) = c THEN 1
    ELSE IF Find(Tail(s), c) = 0 THEN 0 ELSE 1 + Find(Tail(s), c)

\* the value of a string of digits
RECURSIVE DigitsValue(_)
DigitsValue(s) ==
    IF s = <<>> THEN 0
    ELSE 10 * DigitsValue(SubSeq(s, 1, Len(s) - 1))
         + (CHOOSE d \in 0..9 : Digits[d + 1] = s[Len(s)])

\* int(s): `ok` is FALSE where Python raises ValueError.  Surrounding whitespace and
\* one leading sign are accepted.
IntOf(s) ==
    LET t == strip(s)
        signed == t # <<>> /\ Head(t) \in {"+", "-"}
        body == IF signed THEN Tail(t) ELSE t
    IN  IF body = <<>> \/ \E i \in DOMAIN body : body[i] \notin DigitChars
        THEN [ok |-> FALSE, neg |-> FALSE, abs |-> 0]
        ELSE [ok |-> TRUE, neg |-> signed /\ Head(t) = "-" /\ DigitsValue(body) # 0,
              abs |-> DigitsValue(body)]

Min(a, b) == IF a < b THEN a ELSE b
Max(a, b) == IF a > b THEN a ELSE b
\* max(0, min(hi, n)) of a parsed integer
Clamp(n, hi) == IF n.neg THEN 0 ELSE Max(0, Min(hi, n.abs))

\* None where a text is expected
T_NONE == <<NONE>>
TruthyText(s) == s \notin {T_NONE, <<>>}

S_once == <<"o", "n", "c", "e">>
S_manual == <<"m", "a", "n", "u", "a", "l">>
S_off == <<"o", "f", "f">>
S_disabled == <<"d", "i", "s", "a", "b", "l", "e", "d">>
S_none == <<"n", "o", "n", "e">>
S_daily == <<"d", "a", "i", "l", "y">>
S_daily_at == S_daily \o <<"@">>
S_schedule == <<"_", "s", "c", "h", "e", "d", "u", "l", "e">>

\* the keywords of the source and sink types
W_blob == <<"b", "l", "o", "b">>
W_azureblob == <<"a", "z", "u", "r", "e", "b", "l", "o", "b">>
W_adls == <<"a", "d", "l", "s">>
W_datalake == <<"d", "a", "t", "a", "l", "a", "k", "e">>
W_json == <<"j", "s", "o", "n">>
W_snowflake == <<"s", "n", "o", "w", "f", "l", "a", "k", "e">>
W_sf == <<"s", "f">>
W_sql == <<"s", "q", "l">>
W_synapse == <<"s", "y", "n", "a", "p", "s", "e">>
W_azuresql == <<"a", "z", "u", "r", "e", "s", "q", "l">>

\* `w in s` of two strings
Contains(s, w) == \E i \in 1..(Len(s) - Len(w) + 1) : SubSeq(s, i, i + Len(w) - 1) = w

----------------------------------------------------------------------------
(* pipeline_generator/deploy_pipeline.py: the schedule trigger *)

\* the value of a schedule: a string, or the frequency/time object some models return
Text(s) == [dict |-> FALSE, text |-> s]
Dict(frequency, time) == [dict |-> TRUE, frequency |-> frequency, time |-> time]

\* _parse_schedule_string returning None
NoTrigger == [kind |-> "none", hour |-> 0, minute |-> 0]

\* a variant that takes hour and minute as written
_parse_schedule_string_Unclamped(s0) ==
    IF ~TruthyText(s0) THEN NoTrigger
    ELSE LET s == lower(strip(s0))
         IN  IF s \in {S_once, S_manual, S_off, S_disabled, S_none} THEN NoTrigger
             ELSE IF s = S_daily THEN [kind |-> "daily", hour |-> 0, minute |-> 0]
             ELSE IF Len(s) >= Len(S_daily_at) /\ SubSeq(s, 1, Len(S_daily_at)) = S_daily_at
             THEN LET hhmm == SubSeq(s, Len(S_daily_at) + 1, Len(s))
                      colon == Find(hhmm, ":")
                      hh == IntOf(SubSeq(hhmm, 1, colon - 1))
                      mm == IntOf(SubSeq(hhmm, colon + 1, Len(hhmm)))
                  IN  IF colon = 0 \/ ~hh.ok \/ ~mm.ok
                      THEN [kind |-> "daily", hour |-> 0, minute |-> 0]
                      ELSE [kind |-> "daily", hour |-> hh.abs, minute |-> mm.abs]
             ELSE NoTrigger

\* the trigger a schedule string asks for: NoTrigger, or [kind, hour, minute]
_parse_schedule_string(s0) ==
    IF ~TruthyText(s0) THEN NoTrigger
    ELSE LET s == lower(strip(s0))
         IN  IF s \in {S_once, S_manual, S_off, S_disabled, S_none} THEN NoTrigger
             ELSE IF s = S_daily THEN [kind |-> "daily", hour |-> 0, minute |-> 0]
             ELSE IF Len(s) >= Len(S_daily_at) /\ SubSeq(s, 1, Len(S_daily_at)) = S_daily_at
             THEN LET hhmm == SubSeq(s, Len(S_daily_at) + 1, Len(s))
                      colon == Find(hhmm, ":")
                      hh == IntOf(SubSeq(hhmm, 1, colon - 1))
                      mm == IntOf(SubSeq(hhmm, colon + 1, Len(hhmm)))
                  IN  IF colon = 0 \/ ~hh.ok \/ ~mm.ok
                      THEN [kind |-> "daily", hour |-> 0, minute |-> 0]
                      ELSE [kind |-> "daily", hour |-> Clamp(hh, 23), minute |-> Clamp(mm, 59)]
             ELSE NoTrigger

----------------------------------------------------------------------------
(* pipeline_generator/adf_generator.py and deploy_simulator.py *)

\* the fallback names
CopyPipeline == <<"C", "o", "p", "y", "P", "i", "p", "e", "l", "i", "n", "e">>
GeneratedPipeline ==
    <<"G", "e", "n", "e", "r", "a", "t", "e", "d", "P", "i", "p", "e", "l", "i", "n", "e">>

\* a variant that returns what is left of the name even when nothing is left
_sanitize_name_NoFallback(name, fallback) ==
    IF ~TruthyText(name) THEN fallback
    ELSE DropIllegal(SubWhitespace(strip(name)))

_sanitize_name(name, fallback) ==
    IF ~TruthyText(name) THEN fallback
    ELSE IF DropIllegal(SubWhitespace(strip(name))) = <<>> THEN fallback
    ELSE DropIllegal(SubWhitespace(strip(name)))

\* a variant that looks for json before adls and datalake, in the text as given
_map_source_block_type_JsonFirst(source_type) ==
    LET s == IF TruthyText(source_type) THEN source_type ELSE <<>>
    IN  IF Contains(s, W_blob) \/ Contains(s, W_azureblob) THEN "BlobSource"
        ELSE IF Contains(s, W_json) THEN "JsonSource"
        ELSE IF Contains(s, W_adls) \/ Contains(s, W_datalake) THEN "AzureDataLakeStoreSource"
        ELSE "BlobSource"

_map_source_block_type(source_type) ==
    LET s == lower(IF TruthyText(source_type) THEN source_type ELSE <<>>)
    IN  IF Contains(s, W_blob) \/ Contains(s, W_azureblob) THEN "BlobSource"
        ELSE IF Contains(s, W_adls) \/ Contains(s, W_datalake) THEN "AzureDataLakeStoreSource"
        ELSE IF Contains(s, W_json) THEN "JsonSource"
        ELSE "BlobSource"

_map_sink_block_type(sink_type) ==
    LET s == lower(IF TruthyText(sink_type) THEN sink_type ELSE <<>>)
    IN  IF Contains(s, W_snowflake) \/ Contains(s, W_sf) THEN "SnowflakeSink"
        ELSE IF Contains(s, W_sql) \/ Contains(s, W_synapse) \/ Contains(s, W_azuresql)
        THEN "SqlSink"
        ELSE IF Contains(s, W_blob) \/ Contains(s, W_azureblob) THEN "BlobSink"
        ELSE "BlobSink"

\* dict.get(k, default) of a document whose keys are its DOMAIN: the default only when
\* the key is not there
getdefault(d, k, v) == IF k \in DOMAIN d THEN d[k] ELSE v

\* the value under "activities": a list of activities, or a value of another type
List(xs) == [list |-> TRUE, items |-> xs]
NotList == [list |-> FALSE, items |-> <<>>]

\* a variant whose document holds no activity
create_copy_activity_pipeline_NoActivity(config) ==
    [name |-> _sanitize_name(getdefault(config, "name", CopyPipeline), CopyPipeline),
     properties |->
        [activities |-> List(<<>>),
         annotations |->
            [schedule |-> IF TruthyText(getdefault(config, "schedule", Text(S_once)).text)
                          THEN getdefault(config, "schedule", Text(S_once)).text
                          ELSE S_once]]]

\* a variant that always references the default datasets
create_copy_activity_pipeline_DefaultDatasets(config) ==
    [name |-> _sanitize_name(getdefault(config, "name", CopyPipeline), CopyPipeline),
     properties |->
        [activities |-> List(
            <<[name |-> "CopyActivity",
               type |-> "Copy",
               policy |-> [timeout |-> "7.00:00:00", retry |-> 2,
                           retryIntervalInSeconds |-> 30,
                           secureOutput |-> FALSE, secureInput |-> FALSE],
               inputs |-> <<SRC_DS_DEFAULT>>,
               outputs |-> <<SNK_DS_DEFAULT>>,
               source |-> _map_source_block_type(getdefault(config.source, "type", <<>>)),
               sink |-> _map_sink_block_type(getdefault(config.sink, "type", <<>>))]>>),
         annotations |->
            [schedule |-> IF TruthyText(getdefault(config, "schedule", Text(S_once)).text)
                          THEN getdefault(config, "schedule", Text(S_once)).text
                          ELSE S_once]]]

create_copy_activity_pipeline(config) ==
    [name |-> _sanitize_name(getdefault(config, "name", CopyPipeline), CopyPipeline),
     properties |->
        [activities |-> List(
            <<[name |-> "CopyActivity",
               type |-> "Copy",
               policy |-> [timeout |-> "7.00:00:00", retry |-> 2,
                           retryIntervalInSeconds |-> 30,
                           secureOutput |-> FALSE, secureInput |-> FALSE],
               inputs |-> <<getdefault(config.source, "dataset_name", SRC_DS_DEFAULT)>>,
               outputs |-> <<getdefault(config.sink, "dataset_name", SNK_DS_DEFAULT)>>,
               source |-> _map_source_block_type(getdefault(config.source, "type", <<>>)),
               sink |-> _map_sink_block_type(getdefault(config.sink, "type", <<>>))]>>),
         annotations |->
            [schedule |-> IF TruthyText(getdefault(config, "schedule", Text(S_once)).text)
                          THEN getdefault(config, "schedule", Text(S_once)).text
                          ELSE S_once]]]

\* a variant that rejects the activity types it only should warn about
validate_pipeline_hooks_KnownTypes(pipeline) ==
    /\ {"name", "properties"} \subseteq DOMAIN pipeline
    /\ LET activities == getdefault(pipeline.properties, "activities", List(<<>>))
       IN  /\ activities.list
           /\ activities.items # <<>>
           /\ \A i \in DOMAIN activities.items :
                  {"name", "type"} \subseteq DOMAIN activities.items[i]
           /\ \A i, j \in DOMAIN activities.items :
                  activities.items[i].name = activities.items[j].name => i = j
           /\ \A i \in DOMAIN activities.items :
                  activities.items[i].type \in {"Copy", "ExecutePipeline", "ExecuteDataFlow"}

\* (ok, msg)[0] of the validation hooks
validate_pipeline_hooks(pipeline) ==
    /\ {"name", "properties"} \subseteq DOMAIN pipeline
    /\ LET activities == getdefault(pipeline.properties, "activities", List(<<>>))
       IN  /\ activities.list
           /\ activities.items # <<>>
           /\ \A i \in DOMAIN activities.items :
                  {"name", "type"} \subseteq DOMAIN activities.items[i]
           /\ \A i, j \in DOMAIN activities.items :
                  activities.items[i].name = activities.items[j].name => i = j

\* the path save_pipeline_to_file writes for a document at time `stamp`
file_path(pipeline_json, stamp) ==
    [name |-> _sanitize_name(getdefault(pipeline_json, "name", GeneratedPipeline),
                             GeneratedPipeline),
     stamp |-> stamp]

\* the artifact store after save_pipeline_to_file
save_pipeline_to_file(fs, pipeline_json, stamp) ==
    {f \in fs : f.path # file_path(pipeline_json, stamp)}
    \cup {[path |-> file_path(pipeline_json, stamp), content |-> pipeline_json]}

----------------------------------------------------------------------------
(* pipeline_generator/deploy_pipeline.py: deploy_to_adf, one action per step *)

DeployResult(status, iss, name, trigger) ==
    [status |-> status, issues |-> iss, pipeline_name |-> name, trigger_result |-> trigger]

\* the file the handler saved and passes to deploy_to_adf
saved_to == file_path(adf_json, request.now)
\* pipeline_data.get("name", "GeneratedPipeline") of the loaded file
pipeline_name ==
    getdefault((CHOOSE f \in files : f.path = saved_to).content, "name", GeneratedPipeline)

\* the linked-service and dataset names the orchestrator uses
deploy_blob_ls(config, e) ==
    Or(getdefault(config.source, "linked_service", NONE),
       Or(getenv(e, "ADF_BLOB_LINKED_SERVICE"), BLOB_LS_DEFAULT))
deploy_snowflake_ls(config, e) ==
    Or(getdefault(config.sink, "linked_service", NONE),
       Or(getenv(e, "ADF_SNOWFLAKE_LINKED_SERVICE"), SNOWFLAKE_LS_DEFAULT))
deploy_source_ds(config, c) ==
    Or(getdefault(config.source, "dataset_name", NONE),
       Or(get(c, "source_dataset_name"), SRC_DS_DEFAULT))
deploy_sink_ds(config, c) ==
    Or(getdefault(config.sink, "dataset_name", NONE),
       Or(get(c, "sink_dataset_name"), SNK_DS_DEFAULT))

\* the blob location: the context first, then the parts of config source.path
deploy_path(config) == getdefault(config.source, "path", <<>>)
deploy_container(config, c, e) ==
    IF Truthy(Resolve(c, e, "container")) THEN Resolve(c, e, "container")
    ELSE IF deploy_path(config) # <<>> THEN deploy_path(config)[1]
    ELSE Resolve(c, e, "container")
deploy_blob_name(config, c, e) ==
    IF Truthy(Resolve(c, e, "blob_name")) THEN Resolve(c, e, "blob_name")
    ELSE IF Len(deploy_path(config)) >= 2 THEN deploy_path(config)[Len(deploy_path(config))]
    ELSE Resolve(c, e, "blob_name")
\* sink.table, else schema.table of the context
table_qualified(config, c) ==
    Truthy(getdefault(config.sink, "table", NONE))
        \/ (Truthy(get(c, "snowflake_schema")) /\ Truthy(get(c, "snowflake_table")))

\* The calls one ensure_* function may issue for the object `name`: the existence probe,
\* and the create-or-update when the probe did not find the object and `ready` holds.
\* _ls_exists and _dataset_exists read any failure of the probe as "not there".
EnsureRuns(kind, name, ready) ==
    LET getc == IF kind = "ls" THEN "linked_services.get" ELSE "datasets.get"
        putc == IF kind = "ls" THEN "linked_services.create_or_update"
                ELSE "datasets.create_or_update"
        probes == {Call(getc, name, o) :
                      o \in (IF name \in remote[kind] THEN {"ok"} ELSE {"absent"}) \cup {"fail"}}
    IN  {<<g>> : g \in {x \in probes : x.outcome = "ok" \/ ~ready}}
        \cup {<<g, Call(putc, name, o)>> :
                 g \in {x \in probes : x.outcome # "ok" /\ ready},
                 o \in (IF "data_factory" \in remote.infra THEN {"ok", "fail"} ELSE {"absent"})}

Created(cs) == Len(cs) = 2 /\ cs[2].outcome = "ok"
CreateFailed(cs) == Len(cs) = 2 /\ cs[2].outcome # "ok"

\* raise: the exception leaves deploy_to_adf
Raise(e) == exc' = e /\ Return

\* load the saved file, resolve the identifiers, build the client
DepStart ==
    /\ pc = "dep_start"
    /\ issues' = <<>>
    /\ IF \A f \in files : f.path # saved_to
       THEN Raise("FileNotFoundError") /\ UNCHANGED <<calls, faults>>
       ELSE IF missing_bootstrap(ctx, env) # <<>>
       THEN Raise("RuntimeError: Azure env vars missing") /\ UNCHANGED <<calls, faults>>
       ELSE \E o \in Outcomes({"ok"}) :
              /\ calls' = Append(calls, Call("credential", "", o))
              /\ faults' = faults - NFail(<<Call("credential", "", o)>>)
              /\ IF o = "ok"
                 THEN pc' = "dep_blob_linked_service" /\ UNCHANGED <<exc, stack>>
                 ELSE Raise("credential")
    /\ UNCHANGED <<race, raw, env, acct, uc, remote, payload, ctx, initial_report, items, report, actions,
                   fixed_any, request, cfg, missing_inputs, final_report, adf_json, files,
                   deploy_result, response>>

\* ensure_linked_services_from_config: the blob linked service
DepBlobLinkedService ==
    /\ pc = "dep_blob_linked_service"
    /\ \E cs \in EnsureRuns("ls", deploy_blob_ls(cfg, env),
                            Truthy(Resolve(ctx, env, "storage_account_name"))
                                /\ Truthy(Resolve(ctx, env, "storage_account_key"))) :
         /\ NFail(cs) <= faults
         /\ calls' = calls \o cs
         /\ faults' = faults - NFail(cs)
         /\ remote' = IF Created(cs)
                      THEN [remote EXCEPT !.ls = @ \cup {deploy_blob_ls(cfg, env)}] ELSE remote
         /\ issues' = IF Len(cs) = 1 /\ cs[1].outcome # "ok"
                      THEN Append(issues, "missing_blob_credentials") ELSE issues
         /\ IF CreateFailed(cs)
            THEN Raise(RemoteError)
            ELSE pc' = "dep_snowflake_linked_service" /\ UNCHANGED <<exc, stack>>
    /\ UNCHANGED <<race, raw, env, acct, uc, payload, ctx, initial_report, items, report, actions,
                   fixed_any, request, cfg, missing_inputs, final_report, adf_json, files,
                   deploy_result, response>>

\* a variant that goes on to the datasets whatever the issues
DepSnowflakeLinkedService_IgnoresIssues ==
    /\ pc = "dep_snowflake_linked_service"
    /\ IF ~Truthy(Resolve(ctx, env, "snowflake_connection_string"))
       THEN /\ Raise("RuntimeError: Snowflake connection string not provided")
            /\ UNCHANGED <<remote, calls, faults, deploy_result>>
       ELSE \E cs \in EnsureRuns("ls", deploy_snowflake_ls(cfg, env), TRUE) :
              /\ NFail(cs) <= faults
              /\ calls' = calls \o cs
              /\ faults' = faults - NFail(cs)
              /\ remote' = IF Created(cs)
                           THEN [remote EXCEPT !.ls = @ \cup {deploy_snowflake_ls(cfg, env)}]
                           ELSE remote
              /\ IF CreateFailed(cs)
                 THEN Raise(RemoteError) /\ UNCHANGED deploy_result
                 ELSE pc' = "dep_source_dataset" /\ UNCHANGED <<exc, stack, deploy_result>>
    /\ UNCHANGED <<race, raw, env, acct, uc, payload, ctx, initial_report, items, report, actions,
                   fixed_any, request, cfg, missing_inputs, final_report, adf_json, files,
                   issues, response>>

\* ensure_linked_services_from_config: the Snowflake linked service, and deploy_to_adf's
\* return of a blocked result when there are issues
DepSnowflakeLinkedService ==
    /\ pc = "dep_snowflake_linked_service"
    /\ IF ~Truthy(Resolve(ctx, env, "snowflake_connection_string"))
       THEN /\ Raise("RuntimeError: Snowflake connection string not provided")
            /\ UNCHANGED <<remote, calls, faults, deploy_result>>
       ELSE \E cs \in EnsureRuns("ls", deploy_snowflake_ls(cfg, env), TRUE) :
              /\ NFail(cs) <= faults
              /\ calls' = calls \o cs
              /\ faults' = faults - NFail(cs)
              /\ remote' = IF Created(cs)
                           THEN [remote EXCEPT !.ls = @ \cup {deploy_snowflake_ls(cfg, env)}]
                           ELSE remote
              /\ IF CreateFailed(cs)
                 THEN Raise(RemoteError) /\ UNCHANGED deploy_result
                 ELSE IF issues # <<>>
                 THEN /\ deploy_result' = DeployResult("blocked", issues, pipeline_name, "none")
                      /\ Return
                      /\ UNCHANGED exc
                 ELSE pc' = "dep_source_dataset" /\ UNCHANGED <<exc, stack, deploy_result>>
    /\ UNCHANGED <<race, raw, env, acct, uc, payload, ctx, initial_report, items, report, actions,
                   fixed_any, request, cfg, missing_inputs, final_report, adf_json, files,
                   issues, response>>

\* a variant that creates the source dataset whether or not a blob location is known
DepSourceDataset_AnyLocation ==
    /\ pc = "dep_source_dataset"
    /\ \E cs \in EnsureRuns("ds", deploy_source_ds(cfg, ctx), TRUE) :
         /\ NFail(cs) <= faults
         /\ calls' = calls \o cs
         /\ faults' = faults - NFail(cs)
         /\ remote' = IF Created(cs)
                      THEN [remote EXCEPT !.ds = @ \cup {deploy_source_ds(cfg, ctx)}]
                      ELSE remote
         /\ IF CreateFailed(cs)
            THEN Raise(RemoteError)
            ELSE pc' = "dep_sink_dataset" /\ UNCHANGED <<exc, stack>>
    /\ UNCHANGED <<race, raw, env, acct, uc, payload, ctx, initial_report, items, report, actions,
                   fixed_any, request, cfg, missing_inputs, final_report, adf_json, files,
                   deploy_result, issues, response>>

\* ensure_datasets_from_config: the source dataset
DepSourceDataset ==
    /\ pc = "dep_source_dataset"
    /\ IF Truthy(deploy_container(cfg, ctx, env)) /\ Truthy(deploy_blob_name(cfg, ctx, env))
       THEN \E cs \in EnsureRuns("ds", deploy_source_ds(cfg, ctx), TRUE) :
              /\ NFail(cs) <= faults
              /\ calls' = calls \o cs
              /\ faults' = faults - NFail(cs)
              /\ remote' = IF Created(cs)
                           THEN [remote EXCEPT !.ds = @ \cup {deploy_source_ds(cfg, ctx)}]
                           ELSE remote
              /\ IF CreateFailed(cs)
                 THEN Raise(RemoteError)
                 ELSE pc' = "dep_sink_dataset" /\ UNCHANGED <<exc, stack>>
       ELSE /\ pc' = "dep_sink_dataset"
            /\ UNCHANGED <<remote, calls, faults, exc, stack>>
    /\ UNCHANGED <<race, raw, env, acct, uc, payload, ctx, initial_report, items, report, actions,
                   fixed_any, request, cfg, missing_inputs, final_report, adf_json, files,
                   deploy_result, issues, response>>

\* mutant: the sink dataset replaces the datasets of the factory
DepSinkDataset_ReplacesDatasets ==
    /\ pc = "dep_sink_dataset"
    /\ IF table_qualified(cfg, ctx)
       THEN \E cs \in EnsureRuns("ds", deploy_sink_ds(cfg, ctx), TRUE) :
              /\ NFail(cs) <= faults
              /\ calls' = calls \o cs
              /\ faults' = faults - NFail(cs)
              /\ remote' = IF Created(cs)
                           THEN [remote EXCEPT !.ds = {deploy_sink_ds(cfg, ctx)}]
                           ELSE remote
              /\ IF CreateFailed(cs)
                 THEN Raise(RemoteError)
                 ELSE pc' = "dep_pipeline" /\ UNCHANGED <<exc, stack>>
       ELSE /\ pc' = "dep_pipeline"
            /\ UNCHANGED <<remote, calls, faults, exc, stack>>
    /\ UNCHANGED <<race, raw, env, acct, uc, payload, ctx, initial_report, items, report, actions,
                   fixed_any, request, cfg, missing_inputs, final_report, adf_json, files,
                   deploy_result, issues, response>>

\* ensure_datasets_from_config: the sink dataset
DepSinkDataset ==
    /\ pc = "dep_sink_dataset"
    /\ IF table_qualified(cfg, ctx)
       THEN \E cs \in EnsureRuns("ds", deploy_sink_ds(cfg, ctx), TRUE) :
              /\ NFail(cs) <= faults
              /\ calls' = calls \o cs
              /\ faults' = faults - NFail(cs)
              /\ remote' = IF Created(cs)
                           THEN [remote EXCEPT !.ds = @ \cup {deploy_sink_ds(cfg, ctx)}]
                           ELSE remote
              /\ IF CreateFailed(cs)
                 THEN Raise(RemoteError)
                 ELSE pc' = "dep_pipeline" /\ UNCHANGED <<exc, stack>>
       ELSE /\ pc' = "dep_pipeline"
            /\ UNCHANGED <<remote, calls, faults, exc, stack>>
    /\ UNCHANGED <<race, raw, env, acct, uc, payload, ctx, initial_report, items, report, actions,
                   fixed_any, request, cfg, missing_inputs, final_report, adf_json, files,
                   deploy_result, issues, response>>

\* pipelines.create_or_update
DepPipeline ==
    /\ pc = "dep_pipeline"
    /\ \E o \in CreateOutcomes :
         /\ calls' = Append(calls, Call("pipelines.create_or_update", pipeline_name, o))
         /\ faults' = faults - NFail(<<Call("pipelines.create_or_update", pipeline_name, o)>>)
         /\ IF o = "ok"
            THEN /\ remote' = [remote EXCEPT !.pipelines = @ \cup {pipeline_name}]
                 /\ pc' = "dep_trigger"
                 /\ UNCHANGED <<exc, stack>>
            ELSE Raise(RemoteError) /\ UNCHANGED remote
    /\ UNCHANGED <<race, raw, env, acct, uc, payload, ctx, initial_report, items, report, actions,
                   fixed_any, request, cfg, missing_inputs, final_report, adf_json, files,
                   deploy_result, issues, response>>

\* the calls ensure_schedule_trigger issues for a trigger
TriggerRuns(name) ==
    {<<Call("triggers.create_or_update", name, "fail")>>,
     <<Call("triggers.create_or_update", name, "ok"), Call("triggers.start", name, "fail")>>,
     <<Call("triggers.create_or_update", name, "ok"), Call("triggers.start", name, "ok")>>}

\* a variant without the try around ensure_schedule_trigger
DepTrigger_Uncaught ==
    /\ pc = "dep_trigger"
    /\ IF _parse_schedule_string(getdefault(cfg, "schedule", Text(S_once)).text) = NoTrigger
       THEN /\ deploy_result' = DeployResult("deployed", <<>>, pipeline_name, "none")
            /\ Return
            /\ UNCHANGED <<remote, calls, faults, exc>>
       ELSE \E cs \in TriggerRuns(pipeline_name \o S_schedule) :
              /\ NFail(cs) <= faults
              /\ calls' = calls \o cs
              /\ faults' = faults - NFail(cs)
              /\ remote' = [remote EXCEPT
                              !.triggers = IF cs[1].outcome = "ok"
                                           THEN @ \cup {pipeline_name \o S_schedule} ELSE @,
                              !.started = IF NFail(cs) = 0
                                          THEN @ \cup {pipeline_name \o S_schedule} ELSE @]
              /\ IF NFail(cs) = 0
                 THEN /\ deploy_result' = DeployResult("deployed", <<>>, pipeline_name,
                                                       "started")
                      /\ Return
                      /\ UNCHANGED exc
                 ELSE Raise(RemoteError) /\ UNCHANGED deploy_result
    /\ UNCHANGED <<race, raw, env, acct, uc, payload, ctx, initial_report, items, report, actions,
                   fixed_any, request, cfg, missing_inputs, final_report, adf_json, files,
                   issues, response>>

\* ensure_schedule_trigger inside its try, and the deployed result
DepTrigger ==
    /\ pc = "dep_trigger"
    /\ IF _parse_schedule_string(getdefault(cfg, "schedule", Text(S_once)).text) = NoTrigger
       THEN /\ deploy_result' = DeployResult("deployed", <<>>, pipeline_name, "none")
            /\ UNCHANGED <<remote, calls, faults>>
       ELSE \E cs \in TriggerRuns(pipeline_name \o S_schedule) :
              /\ NFail(cs) <= faults
              /\ calls' = calls \o cs
              /\ faults' = faults - NFail(cs)
              /\ remote' = [remote EXCEPT
                              !.triggers = IF cs[1].outcome = "ok"
                                           THEN @ \cup {pipeline_name \o S_schedule} ELSE @,
                              !.started = IF NFail(cs) = 0
                                          THEN @ \cup {pipeline_name \o S_schedule} ELSE @]
              /\ deploy_result' = DeployResult("deployed", <<>>, pipeline_name,
                                               IF NFail(cs) = 0 THEN "started" ELSE "error")
    /\ Return
    /\ UNCHANGED <<race, raw, env, acct, uc, payload, ctx, initial_report, items, report, actions,
                   fixed_any, request, cfg, missing_inputs, final_report, adf_json, files,
                   exc, issues, response>>

deploy_to_adf ==
    \/ DepStart
    \/ DepBlobLinkedService
    \/ DepSnowflakeLinkedService
    \/ DepSourceDataset
    \/ DepSinkDataset
    \/ DepPipeline
    \/ DepTrigger

----------------------------------------------------------------------------
(* Inputs: a baseline value for every input key, changed on the keys of a  *)
(* focus set of at most MaxFocus keys.                                     *)

FocusSets == {F \in SUBSET InputKeys : Cardinality(F) <= MaxFocus}

PayloadValues == {ABSENT, "", "req"}
EnvValues == {NONE, "env"}
ProfileValues == {NONE, "prof"}

PayloadOf(b, F, f) ==
    [k \in CtxKeys |-> IF k \in F THEN f[k] ELSE IF k \in InputKeys THEN b ELSE ABSENT]
EnvOf(b, F, f) ==
    [n \in EnvVars |->
        IF \E k \in F : EnvVar[k] = n THEN f[CHOOSE k \in F : EnvVar[k] = n]
        ELSE IF \E k \in InputKeys : EnvVar[k] = n THEN b ELSE NONE]
AcctOf(b, F, f) ==
    [k \in AcctKeys |-> IF k \in F THEN f[k] ELSE b]
UcOf(b, F, f) ==
    [n \in UcKeys |->
        IF \E k \in F \cap DOMAIN UcField : UcField[k] = n
        THEN f[CHOOSE k \in F \cap DOMAIN UcField : UcField[k] = n]
        ELSE b]

NoEnv == EnvOf(NONE, {}, <<>>)
FullEnv == EnvOf("env", {}, <<>>)
NoAcct == AcctOf(NONE, {}, <<>>)
NoUc == UcOf(NONE, {}, <<>>)
\* what profiles_save writes: the non-secret fields only
SavedAcct == [k \in AcctKeys |-> IF k = "storage_account_key" THEN NONE ELSE "prof"]
SavedUc == [n \in UcKeys |-> IF n = "snowflake_connection_string" THEN NONE ELSE "prof"]

\* the request contexts near the baseline b
PayloadsNear(b) ==
    UNION {{PayloadOf(b, F, f) : f \in [F -> PayloadValues]} : F \in FocusSets}

\* an empty factory in a provisioned subscription
NoRemote ==
    [infra |-> AllInfra, ls |-> {}, ds |-> {}, pipelines |-> {}, triggers |-> {}, started |-> {}]
NoReport == [summary |-> [present |-> <<>>, missing |-> <<>>, errors |-> <<>>], items |-> <<>>]

NoRequest == [op |-> "none", requirement |-> FALSE, simulate |-> FALSE, auto_fix |-> FALSE,
              now |-> ""]
NoResponse == [status |-> "none", http |-> 0, error |-> "", reason |-> ""]
NoConfig == [status |-> "none"]
NoArtifact == [status |-> "none"]
NoAnswer == [kind |-> "none", config |-> NoConfig]
NoDeployResult == [status |-> "none"]

\* no request is being handled
HandlerIdle ==
    /\ request = NoRequest
    /\ raw = NoAnswer
    /\ cfg = NoConfig
    /\ missing_inputs = {}
    /\ final_report = NoReport
    /\ adf_json = NoArtifact
    /\ files = {}
    /\ exc = NONE
    /\ deploy_result = NoDeployResult
    /\ issues = <<>>
    /\ response = NoResponse

----------------------------------------------------------------------------
(* Specification of merge_context alone *)

InitMerge ==
    /\ \E F \in FocusSets :
         \E fp \in [F -> PayloadValues], fe \in [F -> EnvValues], fa \in [F -> ProfileValues] :
           \E bp \in {ABSENT, "req"}, be \in EnvValues, ba \in ProfileValues :
             /\ payload = PayloadOf(bp, F, fp)
             /\ env = EnvOf(be, F, fe)
             /\ acct = AcctOf(ba, F, fa)
             /\ uc = UcOf(ba, F, fa)
    /\ remote = NoRemote
    /\ ctx = [k \in CtxKeys |-> NONE]
    /\ initial_report = NoReport
    /\ pc = "merge"
    /\ stack = <<>>
    /\ items = <<>>
    /\ report = NoReport
    /\ actions = <<>>
    /\ fixed_any = FALSE
    /\ calls = <<>>
    /\ faults = MaxFaults
    /\ HandlerIdle
    /\ race = NoRace

MergeContext ==
    /\ pc = "merge"
    /\ ctx' = merge_context(payload, env, acct, uc)
    /\ pc' = "merged"
    /\ UNCHANGED <<race, env, acct, uc, remote, payload, initial_report, stack, items, report,
                   actions, fixed_any, calls, faults, handler>>

NextMerge == MergeContext

SpecMerge == InitMerge /\ [][NextMerge]_vars

\* other profiles the same merge could have met: all fields unset, all fields set, and
\* the active ones with the secret field unset or set
AcctAlternatives ==
    {[k \in AcctKeys |-> v] : v \in ProfileValues}
    \cup {[acct EXCEPT !["storage_account_key"] = v] : v \in ProfileValues}
UcAlternatives ==
    {[n \in UcKeys |-> v] : v \in ProfileValues}
    \cup {[uc EXCEPT !["snowflake_connection_string"] = v] : v \in ProfileValues}

\* C2: the secret-bearing fields of the context merge_context returns come from the
\* request context or the process environment only: whatever the persisted account and
\* use-case profiles hold instead, both fields resolve to the same values, and with
\* neither the request nor the environment supplying a secret the field is unset.
C2_SecretsNeverFromProfiles ==
    pc = "merged" =>
        \A k \in SecretKeys :
            /\ \A a \in AcctAlternatives, u \in UcAlternatives :
                   merge_context(payload, env, a, u)[k] = ctx[k]
            /\ ctx[k] \in {payload[k], getenv(env, EnvVar[k])}
            /\ (payload[k] = ABSENT /\ ~Truthy(getenv(env, EnvVar[k]))) => ctx[k] = NONE

\* C2 witness: a merge done while the profiles hold both secrets and neither the
\* request nor the environment supplies them.
C2_Witness ==
    /\ pc = "merged"
    /\ acct["storage_account_key"] = "prof"
    /\ uc["snowflake_connection_string"] = "prof"
    /\ \A k \in SecretKeys : payload[k] = ABSENT /\ getenv(env, EnvVar[k]) = NONE
    /\ \A k \in SecretKeys : ctx[k] = NONE

\* the non-secret keys and what the active profiles hold for them
NonSecretKeys ==
    {"subscription_id", "resource_group", "factory_name", "storage_account_name",
     "container", "blob_name", "snowflake_schema", "snowflake_table"}
ProfileValue(k) == IF k \in AcctKeys THEN acct[k] ELSE uc[UcField[k]]

\* C19: for each non-secret key, merge_context resolves to the value of the request
\* context when the request holds the key, otherwise to the value of the process
\* environment when it is set, otherwise to the value of the active profile, and
\* otherwise the key is unset.
C19_NonSecretPrecedence ==
    pc = "merged" =>
        \A k \in NonSecretKeys :
            ctx[k] = IF payload[k] # ABSENT THEN payload[k]
                     ELSE IF getenv(env, EnvVar[k]) # NONE THEN getenv(env, EnvVar[k])
                     ELSE IF ProfileValue(k) # NONE THEN ProfileValue(k)
                     ELSE NONE

\* the environment and the profile both hold a key the request leaves out, and a key the
\* request holds: the environment wins the first, the request the second
C19_Witness ==
    /\ pc = "merged"
    /\ \E k \in NonSecretKeys :
          /\ payload[k] = ABSENT
          /\ getenv(env, EnvVar[k]) = "env" /\ ProfileValue(k) = "prof"
          /\ ctx[k] = "env"
    /\ \E k \in NonSecretKeys :
          /\ payload[k] = "req"
          /\ getenv(env, EnvVar[k]) = "env" /\ ProfileValue(k) = "prof"
          /\ ctx[k] = "req"

----------------------------------------------------------------------------
(* Specification of check_prerequisites called with any context *)

\* the contexts a caller may pass: every input key supplied, or none, changed on a focus set
Contexts ==
    UNION {{[k \in CtxKeys |-> IF k \in F THEN f[k] ELSE IF k \in InputKeys THEN b ELSE NONE] :
              f \in [F -> {NONE, "req"}], b \in {NONE, "req"}} : F \in FocusSets}

\* the clouds a context may point at: a resource group is in a listed subscription, a
\* factory and a storage account are in a resource group, a blob is in a container,
\* linked services and datasets are in a factory
Remotes ==
    {r \in [infra : SUBSET AllInfra,
            ls : SUBSET {BLOB_LS_DEFAULT, SNOWFLAKE_LS_DEFAULT},
            ds : SUBSET {SRC_DS_DEFAULT, SNK_DS_DEFAULT},
            pipelines : {{}}, triggers : {{}}, started : {{}}] :
        /\ "resource_group" \in r.infra => "subscription" \in r.infra
        /\ r.infra \cap {"data_factory", "storage_account", "blob_container"} # {}
               => "resource_group" \in r.infra
        /\ "blob_exists" \in r.infra => "blob_container" \in r.infra
        /\ r.ls \cup r.ds # {} => "data_factory" \in r.infra}

InitCheck ==
    /\ env \in {NoEnv, FullEnv}
    /\ acct = NoAcct
    /\ uc = NoUc
    /\ remote \in Remotes
    /\ payload = [k \in CtxKeys |-> ABSENT]
    /\ ctx \in Contexts
    /\ initial_report = NoReport
    /\ pc = "chk_sanity"
    /\ stack = <<"returned">>
    /\ items = <<>>
    /\ report = NoReport
    /\ actions = <<>>
    /\ fixed_any = FALSE
    /\ calls = <<>>
    /\ faults = MaxFaults
    /\ HandlerIdle
    /\ race = NoRace

NextCheck == check_prerequisites

SpecCheck == InitCheck /\ [][NextCheck]_vars

----------------------------------------------------------------------------
(* Specification of auto_fix_prereqs called with any context and any report *)

FixItems == <<"blob_linked_service", "snowflake_linked_service", "source_dataset", "sink_dataset">>
ItemStatuses == {"present", "missing", "error", "unreported"}

\* the report that gives item FixItems[i] the status st[i]
RECURSIVE ReportItems(_, _)
ReportItems(st, i) ==
    IF i > Len(FixItems) THEN <<>>
    ELSE (IF st[i] = "unreported" THEN <<>> ELSE <<[item |-> FixItems[i], status |-> st[i]]>>)
         \o ReportItems(st, i + 1)

\* reports: all four items missing, or all present, changed on at most MaxFocus items
Reports ==
    UNION {{_finish(ReportItems([i \in DOMAIN FixItems |-> IF i \in F THEN f[i] ELSE b], 1)) :
              f \in [F -> ItemStatuses], b \in {"missing", "present"}} :
           F \in {G \in SUBSET DOMAIN FixItems : Cardinality(G) <= MaxFocus}}

\* an environment that sets the three bootstrap identifiers only
BootstrapEnv ==
    [n \in EnvVars |-> IF \E k \in BootstrapKeys : EnvVar[k] = n THEN "env" ELSE NONE]

FullRemote ==
    [infra |-> AllInfra,
     ls |-> {BLOB_LS_DEFAULT, SNOWFLAKE_LS_DEFAULT}, ds |-> {SRC_DS_DEFAULT, SNK_DS_DEFAULT},
     pipelines |-> {}, triggers |-> {}, started |-> {}]

InitFix ==
    /\ env \in {NoEnv, BootstrapEnv, FullEnv}
    /\ acct = NoAcct
    /\ uc = NoUc
    /\ remote \in {NoRemote, FullRemote}
    /\ payload = [k \in CtxKeys |-> ABSENT]
    /\ ctx \in Contexts
    /\ initial_report \in Reports
    /\ pc = "fix_bootstrap"
    /\ stack = <<"returned">>
    /\ items = <<>>
    /\ report = NoReport
    /\ actions = <<>>
    /\ fixed_any = FALSE
    /\ calls = <<>>
    /\ faults = MaxFixFaults
    /\ HandlerIdle
    /\ race = NoRace

NextFix == auto_fix_prereqs

SpecFix == InitFix /\ [][NextFix]_vars

----------------------------------------------------------------------------
(* app.py: call_llm_and_parse *)

\* a variant that joins frequency and time as they are given
normalize_schedule_in_config_AsGiven(val) ==
    IF val.dict
    THEN LET freq == IF val.frequency = T_NONE THEN <<>> ELSE val.frequency
             tm == IF val.time = T_NONE THEN <<>> ELSE val.time
         IN  Text(IF tm # <<>> THEN freq \o <<"@">> \o tm ELSE freq)
    ELSE val

\* cfg["schedule"] after normalize_schedule_in_config
normalize_schedule_in_config(val) ==
    IF val.dict
    THEN LET freq == strip(IF TruthyText(val.frequency) THEN val.frequency ELSE S_once)
             tm == strip(IF TruthyText(val.time) THEN val.time ELSE <<>>)
         IN  Text(IF tm # <<>> THEN freq \o <<"@">> \o tm ELSE freq)
    ELSE val

\* the configuration call_llm_and_parse returns for a parsed, schema-valid document
call_llm_and_parse(doc, e) ==
    [f \in DOMAIN doc |->
        CASE f = "source" ->
                IF "linked_service" \in DOMAIN doc.source THEN doc.source
                ELSE [k \in DOMAIN doc.source \cup {"linked_service"} |->
                         IF k = "linked_service" THEN DEFAULTS(e).blob_ls ELSE doc.source[k]]
          [] f = "sink" ->
                IF "linked_service" \in DOMAIN doc.sink THEN doc.sink
                ELSE [k \in DOMAIN doc.sink \cup {"linked_service"} |->
                         IF k = "linked_service" THEN DEFAULTS(e).snowflake_ls ELSE doc.sink[k]]
          [] f = "schedule" -> normalize_schedule_in_config(doc.schedule)
          [] OTHER -> doc[f]]

S_0130 == <<"0", "1", ":", "3", "0">>

\* the documents the text-generation service may answer with
RawConfigs ==
    {[name |-> CopyPipeline,
      source |-> [type |-> W_azureblob, path |-> <<"adf-container", "sales.csv">>],
      sink |-> [type |-> W_snowflake, table |-> "finance.daily_sales"],
      schedule |-> sch] : sch \in {Dict(S_daily, S_0130)}}
    \cup {[name |-> CopyPipeline,
            source |-> [type |-> W_json, path |-> <<"adf-container", "orders.json">>,
                        dataset_name |-> "OrdersJson"],
            sink |-> [type |-> W_sql, table |-> "dbo.orders", dataset_name |-> "OrdersTable"],
            schedule |-> Text(S_once)]}

\* what generate_with_openrouter and the parsing steps make of the answer
LLMOutputs ==
    {[kind |-> k, config |-> NoConfig] : k \in {"empty", "malformed", "invalid"}}
    \cup {[kind |-> "config", config |-> c] : c \in RawConfigs}

----------------------------------------------------------------------------
(* app.py: the generate and precheck handlers *)

Response(status, http, error) ==
    [status |-> status, http |-> http, error |-> error, reason |-> ""]
\* error_response(http_code, reason, {"reason": str(e)})
ErrorResponse(http, error, reason) ==
    [status |-> "error", http |-> http, error |-> error, reason |-> reason]
\* str(e) of what call_llm_and_parse raises
InterpretError(kind) ==
    CASE kind = "empty" -> "Empty response from LLM"
      [] kind = "malformed" -> "LLM JSON parse failed"
      [] kind = "invalid" -> "Config schema invalid"

Stamps == {"20261104_000000"}

\* the request contexts a client may send
Payloads == PayloadsNear("req") \cup {[k \in CtxKeys |-> ABSENT]}

\* mutant: a missing blob linked service does not ask for the storage key
generate_missing_inputs_NoStorageKey(c, rep) ==
    {k \in {"snowflake_connection_string"} :
        "snowflake_linked_service" \in missing_items(rep) /\ ~Truthy(get(c, k))}
    \cup {k \in {"container", "blob_name"} :
        "source_dataset" \in missing_items(rep) /\ ~Truthy(get(c, k))}
    \cup {k \in {"snowflake_schema", "snowflake_table"} :
        "sink_dataset" \in missing_items(rep) /\ ~Truthy(get(c, k))}

\* the keys of generate's missing_inputs
generate_missing_inputs(c, rep) ==
    {k \in {"snowflake_connection_string"} :
        "snowflake_linked_service" \in missing_items(rep) /\ ~Truthy(get(c, k))}
    \cup {k \in {"storage_account_key"} :
        "blob_linked_service" \in missing_items(rep) /\ ~Truthy(get(c, k))}
    \cup {k \in {"container", "blob_name"} :
        /\ "source_dataset" \in missing_items(rep)
        /\ (~Truthy(get(c, "container")) \/ ~Truthy(get(c, "blob_name")))
        /\ ~Truthy(get(c, k))}
    \cup {k \in {"snowflake_schema", "snowflake_table"} :
        /\ "sink_dataset" \in missing_items(rep)
        /\ (~Truthy(get(c, "snowflake_schema")) \/ ~Truthy(get(c, "snowflake_table")))
        /\ ~Truthy(get(c, k))}

\* the keys of precheck's missing_inputs
precheck_missing_inputs(c, rep) ==
    {k \in {"snowflake_connection_string"} :
        "snowflake_linked_service" \in missing_items(rep) /\ ~Truthy(get(c, k))}
    \cup {k \in {"storage_account_key"} :
        "blob_linked_service" \in missing_items(rep) /\ ~Truthy(get(c, k))}
    \cup {k \in {"container", "blob_name"} :
        "source_dataset" \in missing_items(rep) /\ ~Truthy(get(c, k))}
    \cup {k \in {"snowflake_schema", "snowflake_table"} :
        "sink_dataset" \in missing_items(rep) /\ ~Truthy(get(c, k))}

\* the variables of the called functions, untouched by a handler's own step
callee == <<items, report, actions, fixed_any, calls, faults, exc, deploy_result, issues>>

\* POST /generate: the requirement, the merged context
GenStart ==
    /\ pc = "idle"
    /\ \E p \in Payloads, req \in BOOLEAN, sim \in BOOLEAN, t \in Stamps :
         /\ payload' = p
         /\ request' = [op |-> "generate", requirement |-> req, simulate |-> sim,
                        auto_fix |-> FALSE, now |-> t]
         /\ IF ~req
            THEN /\ response' = Response("error", 400, "Missing 'requirement'")
                 /\ pc' = "done"
                 /\ UNCHANGED ctx
            ELSE /\ ctx' = merge_context(p, env, acct, uc)
                 /\ pc' = "gen_llm"
                 /\ UNCHANGED response
    /\ UNCHANGED <<race, raw, env, acct, uc, remote, initial_report, stack, cfg, missing_inputs,
                   final_report, adf_json, files, callee>>

\* a variant that goes on with a default configuration when the interpretation fails
GenLLM_DefaultsOnFailure ==
    /\ pc = "gen_llm"
    /\ \E out \in LLMOutputs :
       /\ raw' = out
       /\ cfg' = call_llm_and_parse(IF out.kind = "config" THEN out.config
                                    ELSE CHOOSE c \in RawConfigs : TRUE, env)
       /\ pc' = "chk_sanity"
       /\ stack' = <<"gen_precheck">>
    /\ UNCHANGED <<race, env, acct, uc, remote, payload, ctx, initial_report, request, missing_inputs,
                   final_report, adf_json, files, response, callee>>

\* 1) the configuration, then the call of check_prerequisites
GenLLM ==
    /\ pc = "gen_llm"
    /\ \E out \in LLMOutputs :
       /\ raw' = out
       /\ IF out.kind = "config"
          THEN /\ cfg' = call_llm_and_parse(out.config, env)
               /\ pc' = "chk_sanity"
               /\ stack' = <<"gen_precheck">>
               /\ UNCHANGED response
          ELSE /\ response' = ErrorResponse(400, "Invalid structured output from LLM",
                                            InterpretError(out.kind))
               /\ pc' = "done"
               /\ UNCHANGED <<cfg, stack>>
    /\ UNCHANGED <<race, env, acct, uc, remote, payload, ctx, initial_report, request, missing_inputs,
                   final_report, adf_json, files, callee>>

\* 2) the inputs needed; 3) the call of auto_fix_prereqs
GenPrecheck ==
    /\ pc = "gen_precheck"
    /\ initial_report' = report
    /\ missing_inputs' = generate_missing_inputs(ctx, report)
    /\ IF missing_inputs' # {}
       THEN /\ response' = Response("blocked", 200, "")
            /\ pc' = "done"
            /\ UNCHANGED stack
       ELSE /\ pc' = "fix_bootstrap"
            /\ stack' = <<"gen_autofix_done">>
            /\ UNCHANGED response
    /\ UNCHANGED <<race, raw, env, acct, uc, remote, payload, ctx, request, cfg, final_report, adf_json,
                   files, callee>>

\* mutant: the initial report is the final one whatever was fixed
GenAutofixDone_KeepsInitial ==
    /\ pc = "gen_autofix_done"
    /\ final_report' = initial_report
    /\ pc' = "gen_build"
    /\ UNCHANGED stack
    /\ UNCHANGED <<race, raw, env, acct, uc, remote, payload, ctx, initial_report, request, cfg,
                   missing_inputs, adf_json, files, response, callee>>

\* final = check_prerequisites(ctx) if fixed_any else initial
GenAutofixDone ==
    /\ pc = "gen_autofix_done"
    /\ IF fixed_any
       THEN /\ pc' = "chk_sanity"
            /\ stack' = <<"gen_final">>
            /\ UNCHANGED final_report
       ELSE /\ final_report' = initial_report
            /\ pc' = "gen_build"
            /\ UNCHANGED stack
    /\ UNCHANGED <<race, raw, env, acct, uc, remote, payload, ctx, initial_report, request, cfg,
                   missing_inputs, adf_json, files, response, callee>>

GenFinal ==
    /\ pc = "gen_final"
    /\ final_report' = report
    /\ pc' = "gen_build"
    /\ UNCHANGED <<race, raw, env, acct, uc, remote, payload, ctx, initial_report, stack, request, cfg,
                   missing_inputs, adf_json, files, response, callee>>

\* a variant that goes on to save without building and validating the document
GenBuild_SaveUnbuilt ==
    /\ pc = "gen_build"
    /\ pc' = "gen_save"
    /\ UNCHANGED <<race, raw, env, acct, uc, remote, payload, ctx, initial_report, stack, request, cfg,
                   missing_inputs, final_report, adf_json, files, response, callee>>

\* 4) the pipeline document and its validation
GenBuild ==
    /\ pc = "gen_build"
    /\ adf_json' = create_copy_activity_pipeline(cfg)
    /\ IF validate_pipeline_hooks(adf_json')
       THEN pc' = "gen_save" /\ UNCHANGED response
       ELSE /\ response' = Response("error", 400, "ADF JSON validation failed")
            /\ pc' = "done"
    /\ UNCHANGED <<race, raw, env, acct, uc, remote, payload, ctx, initial_report, stack, request, cfg,
                   missing_inputs, final_report, files, callee>>

\* 5) save, then the validated response or the call of deploy_to_adf
GenSave ==
    /\ pc = "gen_save"
    /\ files' = save_pipeline_to_file(files, adf_json, request.now)
    /\ IF request.simulate
       THEN /\ response' = Response("validated", 200, "")
            /\ pc' = "done"
            /\ UNCHANGED stack
       ELSE /\ pc' = "dep_start"
            /\ stack' = <<"gen_deployed">>
            /\ UNCHANGED response
    /\ UNCHANGED <<race, raw, env, acct, uc, remote, payload, ctx, initial_report, request, cfg,
                   missing_inputs, final_report, adf_json, callee>>

\* deploy_to_adf returned or raised
GenDeployed ==
    /\ pc = "gen_deployed"
    /\ response' = IF exc # NONE THEN ErrorResponse(500, "Deployment failed", exc)
                   ELSE Response("deployed", 200, "")
    /\ pc' = "done"
    /\ UNCHANGED <<race, raw, env, acct, uc, remote, payload, ctx, initial_report, stack, request, cfg,
                   missing_inputs, final_report, adf_json, files, callee>>

generate ==
    \/ GenStart
    \/ GenLLM
    \/ GenPrecheck
    \/ GenAutofixDone
    \/ GenFinal
    \/ GenBuild
    \/ GenSave
    \/ GenDeployed

\* POST /precheck: the merged context, then the call of check_prerequisites
PreStart ==
    /\ pc = "idle"
    /\ \E p \in Payloads, fix \in BOOLEAN :
         /\ payload' = p
         /\ request' = [op |-> "precheck", requirement |-> FALSE, simulate |-> FALSE,
                        auto_fix |-> fix, now |-> ""]
         /\ ctx' = merge_context(p, env, acct, uc)
    /\ pc' = "chk_sanity"
    /\ stack' = <<"pre_precheck">>
    /\ UNCHANGED <<race, raw, env, acct, uc, remote, initial_report, cfg, missing_inputs, final_report,
                   adf_json, files, response, callee>>

\* the inputs needed, then the call of auto_fix_prereqs when it is asked for
PrePrecheck ==
    /\ pc = "pre_precheck"
    /\ initial_report' = report
    /\ missing_inputs' = precheck_missing_inputs(ctx, report)
    /\ IF missing_inputs' # {} /\ request.auto_fix
       THEN /\ response' = Response("missing_inputs", 200, "")
            /\ pc' = "done"
            /\ UNCHANGED <<stack, final_report>>
       ELSE IF request.auto_fix /\ missing_inputs' = {}
       THEN /\ pc' = "fix_bootstrap"
            /\ stack' = <<"pre_autofix_done">>
            /\ UNCHANGED <<response, final_report>>
       ELSE /\ final_report' = report
            /\ response' = Response("ok", 200, "")
            /\ pc' = "done"
            /\ UNCHANGED stack
    /\ UNCHANGED <<race, raw, env, acct, uc, remote, payload, ctx, request, cfg, adf_json, files, callee>>

\* if fixed_any: final_report = check_prerequisites(ctx)
PreAutofixDone ==
    /\ pc = "pre_autofix_done"
    /\ IF fixed_any
       THEN /\ pc' = "chk_sanity"
            /\ stack' = <<"pre_final">>
            /\ UNCHANGED <<final_report, response>>
       ELSE /\ final_report' = initial_report
            /\ response' = Response("ok", 200, "")
            /\ pc' = "done"
            /\ UNCHANGED stack
    /\ UNCHANGED <<race, raw, env, acct, uc, remote, payload, ctx, initial_report, request, cfg,
                   missing_inputs, adf_json, files, callee>>

PreFinal ==
    /\ pc = "pre_final"
    /\ final_report' = report
    /\ response' = Response("ok", 200, "")
    /\ pc' = "done"
    /\ UNCHANGED <<race, raw, env, acct, uc, remote, payload, ctx, initial_report, stack, request, cfg,
                   missing_inputs, adf_json, files, callee>>

precheck ==
    \/ PreStart
    \/ PrePrecheck
    \/ PreAutofixDone
    \/ PreFinal

----------------------------------------------------------------------------
(* Specification of the service handling one request *)

\* the factory's linked services and datasets when the request arrives
FlowRemotes ==
    {r \in Remotes :
        /\ r.infra \in {AllInfra, {"subscription"}}
        /\ r.ls \in {{}, {BLOB_LS_DEFAULT, SNOWFLAKE_LS_DEFAULT}}
        /\ r.ds \in {{}, {SRC_DS_DEFAULT, SNK_DS_DEFAULT}}}

Init ==
    /\ env \in {NoEnv, FullEnv}
    /\ \/ acct = NoAcct /\ uc = NoUc
       \/ acct = SavedAcct /\ uc = SavedUc /\ env = NoEnv
    /\ remote \in FlowRemotes
    /\ payload = [k \in CtxKeys |-> ABSENT]
    /\ ctx = [k \in CtxKeys |-> NONE]
    /\ initial_report = NoReport
    /\ pc = "idle"
    /\ stack = <<>>
    /\ items = <<>>
    /\ report = NoReport
    /\ actions = <<>>
    /\ fixed_any = FALSE
    /\ calls = <<>>
    /\ faults = MaxFlowFaults
    /\ HandlerIdle
    /\ race = NoRace

Next ==
    \/ generate
    \/ precheck
    \/ check_prerequisites
    \/ auto_fix_prereqs
    \/ deploy_to_adf

Spec == Init /\ [][Next]_vars

----------------------------------------------------------------------------
(* Claims about check_prerequisites (SpecCheck) *)

Last(xs) == xs[Len(xs)]
HasItem(its, name) == \E j \in DOMAIN its : its[j].item = name
HasItemStatus(its, name, st) == \E j \in DOMAIN its : its[j] = [item |-> name, status |-> st]
HasCall(c, o) == \E i \in DOMAIN calls : calls[i].call = c /\ calls[i].outcome = o
Unresolved == {k \in BootstrapKeys : ~Truthy(Resolve(ctx, env, k))}

\* C5: with a subscription id, resource group or factory name unresolved, the report
\* holds one `missing` item for each unresolved identifier and nothing else, and neither
\* the credential nor any remote call is attempted.
C5_BootstrapMissingOnly ==
    Unresolved # {} =>
        /\ calls = <<>>
        /\ pc \in {"chk_sanity", "returned"}
        /\ pc = "returned" =>
              /\ Len(report.items) = Cardinality(Unresolved)
              /\ \A k \in Unresolved : HasItemStatus(report.items, k, "missing")
              /\ \A j \in DOMAIN report.items :
                    report.items[j].status = "missing" /\ report.items[j].item \in Unresolved

\* C5 witness: a check that returned with the factory name alone unresolved.
C5_Witness ==
    /\ pc = "returned"
    /\ Unresolved = {"factory_name"}
    /\ report.items = <<_missing("factory_name")>>

\* the summary lists of the report that hold item j of the report
SummaryListsOf(j) ==
    {l \in {"present", "missing", "errors"} :
        \E k \in DOMAIN report.summary[l] :
            IF l = "present" THEN report.summary[l][k] = report.items[j].item
            ELSE report.summary[l][k] = report.items[j]}

\* the summary list that belongs to a status
ListOfStatus(st) ==
    CASE st = "present" -> "present"
      [] st = "missing" -> "missing"
      [] st = "error" -> "errors"
      [] OTHER -> "none"

\* C36: the summary of a returned report partitions its items by status: every item has
\* status present, missing or error and is in exactly one of the lists present, missing
\* and errors, the one of its status, and the lists hold nothing else.
C36_SummaryPartitionsItems ==
    pc = "returned" =>
        /\ \A j \in DOMAIN report.items :
              /\ report.items[j].status \in {"present", "missing", "error"}
              /\ SummaryListsOf(j) = {ListOfStatus(report.items[j].status)}
        /\ Len(report.summary.present) + Len(report.summary.missing)
               + Len(report.summary.errors) = Len(report.items)

\* C36 witness: a returned report with an item of each of the three statuses.
C36_Witness ==
    /\ pc = "returned"
    /\ \A st \in {"present", "missing", "error"} :
          \E j \in DOMAIN report.items : report.items[j].status = st

\* C7: a check that found the resource group absent returns a report ending with the
\* resource_group item, one that found the factory absent a report ending with the
\* data_factory item; the get that found it absent is the last call issued.
C7_StopsAtAbsentAncestor ==
    pc = "returned" =>
        /\ HasCall("resource_groups.get", "absent") =>
              /\ Last(report.items) = _missing("resource_group")
              /\ Last(calls).call = "resource_groups.get"
        /\ HasCall("factories.get", "absent") =>
              /\ Last(report.items) = _missing("data_factory")
              /\ Last(calls).call = "factories.get"

\* C7 witness: a returned check whose factory get answered absent after the resource
\* group was found.
C7_Witness ==
    /\ pc = "returned"
    /\ HasCall("factories.get", "absent")
    /\ HasItemStatus(report.items, "resource_group", "present")
    /\ Last(report.items) = _missing("data_factory")

\* C8: when the credential or a client cannot be acquired, the report is the single
\* item credentials with status error and no remote call follows.
C8_CredentialFailureStops ==
    HasCall("credential", "fail") =>
        /\ calls = <<Call("credential", "", "fail")>>
        /\ pc = "returned"
        /\ report.items = <<_error("credentials")>>

\* C8 witness: a check that returned after the credential acquisition failed.
C8_Witness ==
    /\ pc = "returned"
    /\ HasCall("credential", "fail")
    /\ Last(report.items) = _error("credentials")

\* the report item of the section a remote call belongs to, and the item that an
\* error of that section is recorded under
SectionItem(c) ==
    CASE c = "credential" -> "credentials"
      [] c = "subscriptions.list" -> "subscription"
      [] c \in {"factories.list", "storage_accounts.list"} -> "providers"
      [] c = "resource_groups.get" -> "resource_group"
      [] c = "factories.get" -> "data_factory"
      [] c = "storage_accounts.get_properties" -> "storage_account"
      [] c \in {"list_containers", "list_blobs"} -> "blob_data_plane"
      [] c = "linked_services.list_by_factory" -> "linked_services"
      [] c = "datasets.list_by_factory" -> "datasets"
      [] OTHER -> "none"

\* C9 (as claimed): every remote call that failed is recorded as an item with status
\* error, never as a missing (or present) item of its section.
C9_FailedCallIsError ==
    pc = "returned" =>
        \A i \in DOMAIN calls :
            calls[i].outcome = "fail" =>
                HasItemStatus(report.items, SectionItem(calls[i].call), "error")

\* C10: once the resource group and the factory are found, the storage section, the
\* linked-service listing and the dataset listing are all performed whatever the others
\* gave: a listing that returned reports both of its items, one that failed reports an
\* error item, and the check goes on.
C10_IndependentChecksProceed ==
    (pc = "returned" /\ HasItemStatus(report.items, "data_factory", "present")) =>
        /\ \E i \in DOMAIN calls : calls[i].call = "linked_services.list_by_factory"
        /\ \E i \in DOMAIN calls : calls[i].call = "datasets.list_by_factory"
        /\ Last(calls).call = "datasets.list_by_factory"
        /\ HasCall("linked_services.list_by_factory", "ok") =>
              HasItem(report.items, "blob_linked_service")
              /\ HasItem(report.items, "snowflake_linked_service")
        /\ HasCall("linked_services.list_by_factory", "fail") =>
              HasItemStatus(report.items, "linked_services", "error")
        /\ HasCall("datasets.list_by_factory", "ok") =>
              HasItem(report.items, "source_dataset") /\ HasItem(report.items, "sink_dataset")
        /\ HasCall("datasets.list_by_factory", "fail") =>
              HasItemStatus(report.items, "datasets", "error")
        /\ (HasItem(report.items, "storage_account") \/ HasItem(report.items, "storage_account_name"))

\* C10 witness: the data plane and the linked-service listing both failed and the
\* dataset check still reported both datasets.
C10_Witness ==
    /\ pc = "returned"
    /\ HasItemStatus(report.items, "blob_data_plane", "error")
    /\ HasItemStatus(report.items, "linked_services", "error")
    /\ HasItem(report.items, "source_dataset")
    /\ HasItem(report.items, "sink_dataset")

----------------------------------------------------------------------------
(* Claims about auto_fix_prereqs (SpecFix) *)

Range(xs) == {xs[i] : i \in DOMAIN xs}
ItemSet == Range(FixItems)

\* the inputs the creation of an item requires
Required(item) ==
    CASE item = "blob_linked_service" -> {"storage_account_name", "storage_account_key"}
      [] item = "snowflake_linked_service" -> {"snowflake_connection_string"}
      [] item = "source_dataset" -> {"container", "blob_name"}
      [] item = "sink_dataset" -> {"snowflake_schema", "snowflake_table"}

AbsentInputs(item) == {k \in Required(item) : ~Truthy(Resolve(ctx, env, k))}

\* the create-or-update that creates an item: the operation and the object it names
CreateCall(item) ==
    CASE item = "blob_linked_service" ->
            [call |-> "linked_services.create_or_update", target |-> blob_ls_name(ctx, env)]
      [] item = "snowflake_linked_service" ->
            [call |-> "linked_services.create_or_update", target |-> snowflake_ls_name(ctx, env)]
      [] item = "source_dataset" ->
            [call |-> "datasets.create_or_update", target |-> source_dataset_name(ctx)]
      [] item = "sink_dataset" ->
            [call |-> "datasets.create_or_update", target |-> sink_dataset_name(ctx)]

CreateIssued(item) ==
    \E i \in DOMAIN calls :
        calls[i].call = CreateCall(item).call /\ calls[i].target = CreateCall(item).target

SkippedActions(item) ==
    {i \in DOMAIN actions : actions[i].item = item /\ actions[i].action = "skipped"}

\* the lists of distinct keys among S, and whether a text names the key k of S
KeyLists(S) == {<<k>> : k \in S} \cup {xs \in {<<k1, k2>> : k1 \in S, k2 \in S} : xs[1] # xs[2]}
Mentions(text, k, S) ==
    \E xs \in KeyLists(S) :
        /\ k \in Range(xs)
        /\ text \in {"Missing required inputs: " \o Join(xs), Join(xs) \o " not provided"}

\* an item is created only with its full input set
CreatedOnlyWithInputs ==
    \A item \in ItemSet : CreateIssued(item) => AbsentInputs(item) = {}

\* an item lacking an input is not created and has one skipped entry naming every absent input
SkippedNamingAbsent(item) ==
    /\ ~CreateIssued(item)
    /\ Cardinality(SkippedActions(item)) = 1
    /\ \A i \in SkippedActions(item) :
          \A k \in AbsentInputs(item) : Mentions(actions[i].error, k, Required(item))

\* C1 (as claimed): for every report and context, an item is created only with its full
\* required input set, and every item with an absent input is not created and gets
\* exactly one skipped action whose text names every absent input.
C1_Original ==
    pc = "returned" =>
        /\ CreatedOnlyWithInputs
        /\ \A item \in ItemSet : AbsentInputs(item) # {} => SkippedNamingAbsent(item)

\* C1 (amended): an item is created only with its full required input set; when the
\* bootstrap identifiers are resolved and the client was acquired, every item that the
\* report lists as missing and that lacks an input is not created and gets exactly one
\* entry with action `skipped` whose text names every absent input.
C1_SkippedWhenInputAbsent ==
    /\ CreatedOnlyWithInputs
    /\ pc = "returned" /\ HasCall("credential", "ok") =>
          \A item \in ItemSet \cap missing_items(initial_report) :
              AbsentInputs(item) # {} => SkippedNamingAbsent(item)

\* C1 witness: the blob linked service is reported missing, the storage account name and
\* key are both absent, and the returned actions hold its one skipped entry, naming both.
C1_Witness ==
    /\ pc = "returned"
    /\ "blob_linked_service" \in missing_items(initial_report)
    /\ AbsentInputs("blob_linked_service") = {"storage_account_name", "storage_account_key"}
    /\ ~CreateIssued("blob_linked_service")
    /\ \E i \in DOMAIN actions :
          actions[i] = Action("blob_linked_service", "skipped", "missing_input",
              "Missing required inputs: storage_account_name, storage_account_key")

\* C4: every create-or-update the auto-fixer issues is for a linked service or dataset
\* that the report it was given lists with status missing.
C4_OnlyMissingItemsFixed ==
    /\ \A item \in ItemSet : CreateIssued(item) => item \in missing_items(initial_report)
    /\ \A i \in DOMAIN calls :
          calls[i].call \in MutatingCalls =>
              \E item \in missing_items(initial_report) \cap ItemSet :
                  calls[i].call = CreateCall(item).call /\ calls[i].target = CreateCall(item).target

\* C4 witness: the blob linked service, reported missing, was created while the sink
\* dataset, reported with status error and with all its inputs there, was left alone.
C4_Witness ==
    /\ pc = "returned"
    /\ CreateIssued("blob_linked_service")
    /\ HasItemStatus(initial_report.items, "sink_dataset", "error")
    /\ AbsentInputs("sink_dataset") = {}
    /\ ~CreateIssued("sink_dataset")

----------------------------------------------------------------------------
(* Claims about the generate and precheck handlers (Spec) *)

\* a create-or-update of the blob linked service is in the call log
BlobLinkedServiceCreateIssued ==
    \E i \in DOMAIN calls :
        /\ calls[i].call = "linked_services.create_or_update"
        /\ calls[i].target = blob_ls_name(ctx, env)

\* the handler has computed its missing inputs from an initial report that lists the
\* blob linked service as missing, with no storage_account_key in the merged context
KeyLackingBlobMissing ==
    /\ request.op \in {"generate", "precheck"}
    /\ "blob_linked_service" \in missing_items(initial_report)
    /\ ~Truthy(get(ctx, "storage_account_key"))

\* C3: when the merged context has no storage_account_key and the initial report lists
\* blob_linked_service as missing, generate answers blocked and precheck with auto-fix
\* requested answers missing_inputs, both with storage_account_key among the missing
\* inputs, and no create-or-update of the blob linked service is ever issued.
C3_BlockedWithoutStorageKey ==
    KeyLackingBlobMissing =>
        /\ "storage_account_key" \in missing_inputs
        /\ ~BlobLinkedServiceCreateIssued
        /\ pc = "done"
        /\ request.op = "generate" => response.status = "blocked"
        /\ request.op = "precheck" /\ request.auto_fix => response.status = "missing_inputs"

\* C3 witness: generate answered blocked, asking for the storage key, after a check that
\* went through to the linked services and found the blob one missing.
C3_Witness ==
    /\ pc = "done"
    /\ request.op = "generate"
    /\ response.status = "blocked"
    /\ missing_inputs = {"storage_account_key"}
    /\ "blob_linked_service" \in missing_items(initial_report)
    /\ HasCall("linked_services.list_by_factory", "ok")
    /\ ~BlobLinkedServiceCreateIssued

\* deploy_to_adf has been called
DeployInvoked ==
    \/ pc \in {"dep_start", "dep_blob_linked_service", "dep_snowflake_linked_service",
               "dep_source_dataset", "dep_sink_dataset", "dep_pipeline", "dep_trigger",
               "gen_deployed"}
    \/ exc # NONE
    \/ deploy_result # NoDeployResult

\* C6 (as claimed): when the initial report of a generate invocation holds a missing
\* bootstrap identifier, generate answers blocked with the missing inputs listed, saves
\* no artifact and does not call deploy_to_adf.
C6_BootstrapMissingBlocks ==
    (/\ request.op = "generate"
     /\ \E k \in BootstrapKeys \cap Unresolved :
            HasItemStatus(initial_report.items, k, "missing"))
        => /\ files = {}
           /\ ~DeployInvoked
           /\ pc = "done" => response.status = "blocked" /\ missing_inputs # {}

----------------------------------------------------------------------------
(* Further claims about check_prerequisites (SpecCheck) *)

\* the check returned after its storage section ran with an account name and key
StorageChecked ==
    /\ pc = "returned"
    /\ HasItemStatus(report.items, "data_factory", "present")
    /\ Truthy(Resolve(ctx, env, "storage_account_name"))
    /\ Truthy(Resolve(ctx, env, "storage_account_key"))

NoItems(its, names) == \A j \in DOMAIN its : its[j].item \notin names

----------------------------------------------------------------------------
(* Specification of check_prerequisites called twice in succession with the *)
(* same context                                                             *)

InitRecheck ==
    /\ env \in {NoEnv, FullEnv}
    /\ acct = NoAcct
    /\ uc = NoUc
    /\ remote \in FlowRemotes
    /\ payload = [k \in CtxKeys |-> ABSENT]
    /\ ctx \in Contexts
    /\ initial_report = NoReport
    /\ pc = "chk_sanity"
    /\ stack = <<"again">>
    /\ items = <<>>
    /\ report = NoReport
    /\ actions = <<>>
    /\ fixed_any = FALSE
    /\ calls = <<>>
    /\ faults = MaxFaults
    /\ HandlerIdle
    /\ race = NoRace

\* first = check_prerequisites(ctx); then the second call
CheckAgain ==
    /\ pc = "again"
    /\ initial_report' = report
    /\ pc' = "chk_sanity"
    /\ stack' = <<"returned">>
    /\ UNCHANGED <<race, env, acct, uc, remote, payload, ctx, items, report, actions, fixed_any,
                   calls, faults, handler>>

NextRecheck ==
    \/ check_prerequisites
    \/ CheckAgain

SpecRecheck == InitRecheck /\ [][NextRecheck]_vars

\* both calls were answered alike: the second half of the call log repeats the first
SameAnswers ==
    \E n \in 0..Len(calls) :
        /\ Len(calls) = 2 * n
        /\ SubSeq(calls, 1, n) = SubSeq(calls, n + 1, 2 * n)

\* C12: two calls of check_prerequisites in succession with the same context, the
\* remote state unchanged and answering both alike, return reports with the same
\* sequence of items and the same status for every item.
C12_CheckIdempotent ==
    (pc = "returned" /\ SameAnswers) => report = initial_report

\* C12 witness: the second call returned the first call's report, both having gone
\* through every section down to the datasets.
C12_Witness ==
    /\ pc = "returned"
    /\ SameAnswers
    /\ HasCall("datasets.list_by_factory", "ok")
    /\ HasItem(initial_report.items, "sink_dataset")
    /\ report = initial_report

----------------------------------------------------------------------------
(* Specification of deploy_to_adf called with any context on a saved artifact *)

\* the configurations deploy_to_adf may be given: with or without a source path, with
\* or without a sink table, run once or daily
\* the schedule strings tried: the words for no trigger, "daily", times in and out of
\* range, times that do not parse, other words
ScheduleTexts ==
    {<<>>, S_manual, S_off, S_disabled, S_none, S_daily, <<" ", "D", "a", "i", "l", "y", " ">>,
     <<"h", "o", "u", "r", "l", "y">>}
    \cup {S_daily_at \o t :
            t \in {<<"9", "9", ":", "9", "9">>, <<"2", "3", ":", "5", "9">>,
                   <<"2", "4", ":", "6", "0">>, <<"7", ":", "5">>, <<"-", "1", ":", "3", "0">>,
                   <<"0", "1", "3", "0">>, <<"a", "b", ":", "c", "d">>, <<"1", ":", "2", ":", "3">>,
                   <<>>, <<":">>}}

DeployConfigs ==
    {[name |-> CopyPipeline, source |-> src, sink |-> snk, schedule |-> sch] :
        src \in {[type |-> W_azureblob, path |-> <<"adf-container", "sales.csv">>],
                 [type |-> W_azureblob]},
        snk \in {[type |-> W_snowflake, table |-> "finance.daily_sales"],
                 [type |-> W_snowflake]},
        sch \in {Text(S_once), Dict(S_daily, S_0130)}}
    \cup {[name |-> CopyPipeline,
           source |-> [type |-> W_azureblob, path |-> <<"adf-container", "sales.csv">>],
           sink |-> [type |-> W_snowflake, table |-> "finance.daily_sales"],
           schedule |-> Text(s)] : s \in ScheduleTexts}

\* every input supplied but the blob location and the Snowflake schema and table
NoLocationContext ==
    [k \in CtxKeys |-> IF k \in InputKeys \ {"container", "blob_name", "snowflake_schema",
                                               "snowflake_table"}
                       THEN "req" ELSE NONE]

InitDeploy ==
    /\ race = NoRace
    /\ env \in {NoEnv, FullEnv}
    /\ acct = NoAcct
    /\ uc = NoUc
    /\ remote \in FlowRemotes
    /\ payload = [k \in CtxKeys |-> ABSENT]
    /\ ctx \in Contexts \cup {NoLocationContext}
    /\ initial_report = NoReport
    /\ pc = "dep_start"
    /\ stack = <<"returned">>
    /\ items = <<>>
    /\ report = NoReport
    /\ actions = <<>>
    /\ fixed_any = FALSE
    /\ calls = <<>>
    /\ faults = MaxFaults
    /\ request = [op |-> "deploy", requirement |-> TRUE, simulate |-> FALSE, auto_fix |-> FALSE,
                  now |-> CHOOSE t \in Stamps : TRUE]
    /\ raw = NoAnswer
    /\ \E doc \in DeployConfigs :
         /\ cfg = call_llm_and_parse(doc, env)
         /\ adf_json = create_copy_activity_pipeline(cfg)
    /\ missing_inputs = {}
    /\ final_report = NoReport
    /\ files = save_pipeline_to_file({}, adf_json, request.now)
    /\ exc = NONE
    /\ deploy_result = NoDeployResult
    /\ issues = <<>>
    /\ response = NoResponse

NextDeploy == deploy_to_adf

SpecDeploy == InitDeploy /\ [][NextDeploy]_vars

----------------------------------------------------------------------------
(* Claims about deploy_to_adf (SpecDeploy) *)

HasCallTo(c, t) == \E i \in DOMAIN calls : calls[i].call = c /\ calls[i].target = t
HasCallNamed(cs) == \E i \in DOMAIN calls : calls[i].call \in cs

\* the linked service is not in the factory and the inputs to create it are not there
BlobUnensurable ==
    /\ deploy_blob_ls(cfg, env) \notin remote.ls
    /\ ~(Truthy(Resolve(ctx, env, "storage_account_name"))
         /\ Truthy(Resolve(ctx, env, "storage_account_key")))
SnowflakeUnensurable ==
    /\ deploy_snowflake_ls(cfg, env) \notin remote.ls
    /\ ~Truthy(Resolve(ctx, env, "snowflake_connection_string"))

\* C13 (as claimed): deploy_to_adf never raises because a credential or connection
\* string is missing: when a linked service cannot be ensured because the storage
\* account name or key or the Snowflake connection string is absent, it returns a
\* blocked result listing the issue and creates no dataset, pipeline or trigger.
C13_BlockedNeverRaises ==
    (/\ pc = "returned"
     /\ HasCall("credential", "ok")
     /\ BlobUnensurable \/ SnowflakeUnensurable)
        => /\ exc # "RuntimeError: Snowflake connection string not provided"
           /\ exc = NONE =>
                 /\ deploy_result.status = "blocked"
                 /\ deploy_result.issues # <<>>
                 /\ ~HasCallNamed({"datasets.create_or_update", "pipelines.create_or_update",
                                   "triggers.create_or_update", "triggers.start"})


SourceCreateIssued == HasCallTo("datasets.create_or_update", deploy_source_ds(cfg, ctx))
SinkCreateIssued == HasCallTo("datasets.create_or_update", deploy_sink_ds(cfg, ctx))
SourceTouched == SourceCreateIssued \/ HasCallTo("datasets.get", deploy_source_ds(cfg, ctx))
SinkTouched == SinkCreateIssued \/ HasCallTo("datasets.get", deploy_sink_ds(cfg, ctx))

\* the location as the resolved context alone gives it
ContextSourceLocation ==
    Truthy(Resolve(ctx, env, "container")) /\ Truthy(Resolve(ctx, env, "blob_name"))
ContextSinkLocation ==
    Truthy(get(ctx, "snowflake_schema")) /\ Truthy(get(ctx, "snowflake_table"))
\* the location as ensure_datasets_from_config finds it: context, else configuration
SourceLocation ==
    Truthy(deploy_container(cfg, ctx, env)) /\ Truthy(deploy_blob_name(cfg, ctx, env))
SinkLocation == table_qualified(cfg, ctx)

----------------------------------------------------------------------------
(* Specification of one decoded document taken through call_llm_and_parse,
   create_copy_activity_pipeline and validate_pipeline_hooks *)

\* the texts of at most MaxText characters over `chars`
Texts(chars) == UNION {[1..n -> chars] : n \in 0..MaxText}

DocumentBase ==
    [name |-> CopyPipeline,
     source |-> [type |-> W_azureblob, path |-> <<"adf-container", "sales.csv">>],
     sink |-> [type |-> W_snowflake, table |-> "finance.daily_sales"],
     schedule |-> Text(S_once)]

\* source types: "", "blob", "adls", "JSON", "datalake json", "AzureBlob", "csv",
\* "adls-blob"
SourceTypes ==
    {<<>>, W_blob, W_adls, <<"J", "S", "O", "N">>, W_datalake \o <<" ">> \o W_json,
     <<"A", "z", "u", "r", "e", "B", "l", "o", "b">>, <<"c", "s", "v">>,
     W_adls \o <<"-">> \o W_blob}
\* sink types: "", "Snowflake", "SQL", "blob", "sf sql", "synapse", "AzureSQL", "csv",
\* "blob-sql"
SinkTypes ==
    {<<>>, <<"S", "n", "o", "w", "f", "l", "a", "k", "e">>, <<"S", "Q", "L">>, W_blob,
     W_sf \o <<" ">> \o W_sql, W_synapse, <<"A", "z", "u", "r", "e", "S", "Q", "L">>,
     <<"c", "s", "v">>, W_blob \o <<"-">> \o W_sql}

\* the documents that pass the schema: any name or none, any source and sink type,
\* dataset names given or not, the schedule a string or a frequency/time object
Documents ==
    {[DocumentBase EXCEPT !.name = n] :
        n \in Texts({"a", "1", " ", "!"})
              \cup {<<"a", " ", "\t", "b", "!">>, <<" ", "A", "-", "_", " ", "1", " ">>,
                    <<"!", " ", "!">>}}
    \cup {[k \in DOMAIN DocumentBase \ {"name"} |-> DocumentBase[k]]}
    \cup {[DocumentBase EXCEPT !.source = src, !.sink = snk] :
            src \in {[type |-> t] : t \in SourceTypes}
                    \cup {[type |-> W_json, dataset_name |-> "OrdersJson"], [path |-> <<>>]},
            snk \in {[type |-> t] : t \in SinkTypes}
                    \cup {[type |-> W_sql, dataset_name |-> "OrdersTable"], [table |-> ""]}}
    \cup {[DocumentBase EXCEPT !.schedule = Text(s)] :
            s \in {<<>>, S_daily, S_daily_at \o S_0130, <<" ", "d", " ">>}}
    \cup {[DocumentBase EXCEPT !.schedule = Dict(f, t)] :
            f \in Texts({"d", " "}) \cup {T_NONE}, t \in Texts({"1", " "}) \cup {T_NONE}}

InitDocument ==
    /\ race = NoRace
    /\ env \in {NoEnv, FullEnv}
    /\ acct = NoAcct
    /\ uc = NoUc
    /\ remote = NoRemote
    /\ payload = [k \in CtxKeys |-> ABSENT]
    /\ ctx = [k \in CtxKeys |-> NONE]
    /\ initial_report = NoReport
    /\ pc = "doc_decoded"
    /\ stack = <<>>
    /\ items = <<>>
    /\ report = NoReport
    /\ actions = <<>>
    /\ fixed_any = FALSE
    /\ calls = <<>>
    /\ faults = 0
    /\ request = NoRequest
    /\ \E doc \in Documents : raw = [kind |-> "config", config |-> doc]
    /\ cfg = NoConfig
    /\ missing_inputs = {}
    /\ final_report = NoReport
    /\ adf_json = NoArtifact
    /\ files = {}
    /\ exc = NONE
    /\ deploy_result = NoDeployResult
    /\ issues = <<>>
    /\ response = NoResponse

\* what the fixed schema asks of the schedule: a string
js_validate(doc) == ~doc.schedule.dict

\* a variant that validates the decoded document before its schedule is flattened
DocInterpret_ValidatesFirst ==
    /\ pc = "doc_decoded"
    /\ IF js_validate(raw.config)
       THEN /\ cfg' = call_llm_and_parse(raw.config, env)
            /\ pc' = "doc_config"
            /\ UNCHANGED response
       ELSE /\ response' = ErrorResponse(400, "Invalid structured output from LLM",
                                         InterpretError("invalid"))
            /\ pc' = "doc_rejected"
            /\ UNCHANGED cfg
    /\ UNCHANGED <<race, env, acct, uc, remote, payload, ctx, initial_report, stack, request, raw,
                   missing_inputs, final_report, adf_json, files, callee>>

\* call_llm_and_parse from the decoded document on: the schedule flattened, the
\* document validated, the linked-service names defaulted
DocInterpret ==
    /\ pc = "doc_decoded"
    /\ IF js_validate([raw.config EXCEPT
                          !.schedule = normalize_schedule_in_config(raw.config.schedule)])
       THEN /\ cfg' = call_llm_and_parse(raw.config, env)
            /\ pc' = "doc_config"
            /\ UNCHANGED response
       ELSE /\ response' = ErrorResponse(400, "Invalid structured output from LLM",
                                         InterpretError("invalid"))
            /\ pc' = "doc_rejected"
            /\ UNCHANGED cfg
    /\ UNCHANGED <<race, env, acct, uc, remote, payload, ctx, initial_report, stack, request, raw,
                   missing_inputs, final_report, adf_json, files, callee>>

DocGenerate ==
    /\ pc = "doc_config"
    /\ adf_json' = create_copy_activity_pipeline(cfg)
    /\ pc' = "doc_generated"
    /\ UNCHANGED <<race, env, acct, uc, remote, payload, ctx, initial_report, stack, request, raw,
                   cfg, missing_inputs, final_report, files, response, callee>>

DocValidate ==
    /\ pc = "doc_generated"
    /\ response' = IF validate_pipeline_hooks(adf_json)
                   THEN Response("validated", 200, "")
                   ELSE ErrorResponse(400, "ADF JSON validation failed", "")
    /\ pc' = "doc_validated"
    /\ UNCHANGED <<race, env, acct, uc, remote, payload, ctx, initial_report, stack, request, raw,
                   cfg, missing_inputs, final_report, adf_json, files, callee>>

\* generate's save of the validated document
DocSave ==
    /\ pc = "doc_validated"
    /\ response.status = "validated"
    /\ \E t \in Stamps : files' = save_pipeline_to_file(files, adf_json, t)
    /\ pc' = "doc_saved"
    /\ UNCHANGED <<race, env, acct, uc, remote, payload, ctx, initial_report, stack, request, raw,
                   cfg, missing_inputs, final_report, adf_json, response, callee>>

NextDocument == DocInterpret \/ DocGenerate \/ DocValidate \/ DocSave

SpecDocument == InitDocument /\ [][NextDocument]_vars

----------------------------------------------------------------------------
(* Claims about the document functions (SpecDocument) *)

\* C16: for every schema-valid configuration, the document that
\* create_copy_activity_pipeline returns is accepted by validate_pipeline_hooks.
C16_GeneratedArtifactValid ==
    /\ pc \in {"doc_generated", "doc_validated"} => validate_pipeline_hooks(adf_json)
    /\ pc = "doc_validated" => response.status = "validated"

\* a name of illegal characters only, an unknown source type: still accepted
C16_Witness ==
    /\ pc = "doc_validated"
    /\ response.status = "validated"
    /\ \/ "name" \in DOMAIN cfg /\ cfg.name = <<"!", "!">> /\ adf_json.name = CopyPipeline
       \/ "type" \notin DOMAIN cfg.source


\* the schedule of the decoded document and the schedule of the configuration
schedule_decoded == raw.config.schedule
Interpreted == pc \in {"doc_config", "doc_generated", "doc_validated", "doc_saved"}

\* C20 (as claimed): normalize_schedule_in_config maps every schedule object
\* {frequency: f, time: t} to "f@t" when t is non-empty and to f otherwise, and leaves
\* a schedule that is already a string unchanged.
C20_Original ==
    Interpreted =>
        IF schedule_decoded.dict
        THEN (schedule_decoded.frequency # T_NONE /\ schedule_decoded.time # T_NONE)
                => cfg.schedule.text = IF schedule_decoded.time # <<>>
                                  THEN schedule_decoded.frequency \o <<"@">>
                                           \o schedule_decoded.time
                                  ELSE schedule_decoded.frequency
        ELSE cfg.schedule.text = schedule_decoded.text

\* C20 (amended): with f the frequency stripped of surrounding whitespace, or "once"
\* when the frequency is missing or empty, and t the time stripped of surrounding
\* whitespace, or empty when the time is missing, normalize_schedule_in_config maps a
\* schedule object to "f@t" when t is non-empty and to f otherwise; a schedule that is
\* already a string is left unchanged.
C20_ScheduleFlattened ==
    Interpreted =>
        IF schedule_decoded.dict
        THEN LET f == IF schedule_decoded.frequency \in {T_NONE, <<>>} THEN S_once
                      ELSE strip(schedule_decoded.frequency)
                 t == IF schedule_decoded.time = T_NONE THEN <<>>
                      ELSE strip(schedule_decoded.time)
             IN  cfg.schedule.text = IF t = <<>> THEN f ELSE f \o <<"@">> \o t
        ELSE cfg.schedule.text = schedule_decoded.text

\* a padded frequency and a padded time joined without the padding
C20_Witness ==
    /\ Interpreted
    /\ schedule_decoded = Dict(<<" ", "d">>, <<"1", " ">>)
    /\ cfg.schedule.text = <<"d", "@", "1">>

\* C35: when a schedule object has no frequency, normalization yields exactly "once",
\* whatever its time subfield is.
C35_NoFrequencyIsOnce ==
    (Interpreted /\ schedule_decoded.dict /\ schedule_decoded.frequency = T_NONE)
        => cfg.schedule.text = S_once

\* the lowercased type the configuration gives for its source and its sink
SourceTypeGiven == lower(getdefault(cfg.source, "type", <<>>))
SinkTypeGiven == lower(getdefault(cfg.sink, "type", <<>>))
Generated == pc \in {"doc_generated", "doc_validated", "doc_saved"}

\* C31: the copy activity's source kind and sink kind follow the case-insensitive
\* substring mapping of source.type and sink.type: a source containing "blob" is a blob
\* source, else one containing "adls" or "datalake" a data-lake source, else one
\* containing "json" a json source, else a blob source; a sink containing "snowflake" or
\* "sf" is a Snowflake sink, else one containing "sql" or "synapse" a SQL sink, else a
\* blob sink.
C31_SourceSinkKinds ==
    Generated =>
        /\ adf_json.properties.activities.items[1].source =
              (IF Contains(SourceTypeGiven, W_blob) THEN "BlobSource"
               ELSE IF Contains(SourceTypeGiven, W_adls) \/ Contains(SourceTypeGiven, W_datalake)
               THEN "AzureDataLakeStoreSource"
               ELSE IF Contains(SourceTypeGiven, W_json) THEN "JsonSource"
               ELSE "BlobSource")
        /\ adf_json.properties.activities.items[1].sink =
              (IF Contains(SinkTypeGiven, W_snowflake) \/ Contains(SinkTypeGiven, W_sf)
               THEN "SnowflakeSink"
               ELSE IF Contains(SinkTypeGiven, W_sql) \/ Contains(SinkTypeGiven, W_synapse)
               THEN "SqlSink"
               ELSE "BlobSink")

\* "datalake json" is a data-lake source, "AzureSQL" a SQL sink
C31_Witness ==
    /\ Generated
    /\ Contains(SourceTypeGiven, W_datalake) /\ Contains(SourceTypeGiven, W_json)
    /\ cfg.sink.type = <<"A", "z", "u", "r", "e", "S", "Q", "L">>
    /\ adf_json.properties.activities.items[1].source = "AzureDataLakeStoreSource"
    /\ adf_json.properties.activities.items[1].sink = "SqlSink"

\* the name the configuration gives, "" when it gives none
NameGiven == IF "name" \in DOMAIN raw.config THEN raw.config.name ELSE <<>>

\* the characters of s other than the underscore that a name may hold, in order
RECURSIVE KeptChars(_)
KeptChars(s) ==
    IF s = <<>> THEN <<>>
    ELSE (IF Head(s) \in NameChars \ {"_"} THEN <<Head(s)>> ELSE <<>>) \o KeptChars(Tail(s))

\* the number of underscores of s
RECURSIVE Underscores(_)
Underscores(s) ==
    IF s = <<>> THEN 0 ELSE (IF Head(s) = "_" THEN 1 ELSE 0) + Underscores(Tail(s))

\* the number of whitespace runs of s that have a character before and after them
InnerRuns(s) ==
    Cardinality({i \in 2..Len(s) :
                    /\ s[i] \in Whitespace
                    /\ s[i - 1] \notin Whitespace
                    /\ \E j \in (i + 1)..Len(s) : s[j] \notin Whitespace})

----------------------------------------------------------------------------
(* Further claims about the handlers (Spec) *)

\* C15: in generate, the structural validation of the document comes before it is
\* saved and before deploy_to_adf is called: every file written holds a document that
\* passed validate_pipeline_hooks, deploy_to_adf is called only with such a document
\* already saved, and a request answered "ADF JSON validation failed" has written no
\* file and has not called deploy_to_adf.
C15_ValidatedBeforeSaveAndDeploy ==
    request.op = "generate" =>
        /\ \A f \in files : f.content = adf_json /\ validate_pipeline_hooks(f.content)
        /\ DeployInvoked => files # {} /\ validate_pipeline_hooks(adf_json)
        /\ pc \in {"idle", "gen_llm", "chk_sanity", "gen_precheck", "gen_autofix_done",
                   "gen_final", "gen_build"} => files = {} /\ ~DeployInvoked
        /\ response.error = "ADF JSON validation failed" => files = {} /\ ~DeployInvoked

\* deploy_to_adf is about to run on a validated, saved document
C15_Witness ==
    /\ request.op = "generate"
    /\ pc = "dep_start"
    /\ validate_pipeline_hooks(adf_json)
    /\ \E f \in files : f.path = saved_to /\ f.content = adf_json


\* C17 (as claimed): generate answers `deployed` only when the pipeline document was
\* created or updated remotely in that invocation; an invocation in which deploy_to_adf
\* was blocked or the pipeline was not created never answers `deployed`.
C17_DeployedMeansPipelineCreated ==
    (request.op = "generate" /\ pc = "done" /\ response.status = "deployed")
        => /\ HasCall("pipelines.create_or_update", "ok")
           /\ deploy_result.status # "blocked"


\* C18: when the interpretation of the requirement fails (the text-generation service
\* answers nothing, the repaired text does not decode, or the document violates the
\* schema), generate answers an error that carries the reason of the failure, and runs
\* no prerequisite check, no auto-fix, no generation, no save and no deployment; no
\* configuration stands in for the failed one.
C18_InterpretationFailureStops ==
    (request.op = "generate" /\ raw.kind \in {"empty", "malformed", "invalid"})
        => /\ pc = "done"
           /\ response.status = "error" /\ response.http = 400
           /\ response.reason = (CASE raw.kind = "empty" -> "Empty response from LLM"
                                   [] raw.kind = "malformed" -> "LLM JSON parse failed"
                                   [] raw.kind = "invalid" -> "Config schema invalid")
           /\ cfg = NoConfig
           /\ calls = <<>> /\ items = <<>> /\ report = NoReport /\ initial_report = NoReport
           /\ actions = <<>>
           /\ adf_json = NoArtifact /\ files = {}
           /\ ~DeployInvoked

\* the repaired text did not decode: the request ends with the reason and nothing done
C18_Witness ==
    /\ request.op = "generate"
    /\ raw.kind = "malformed"
    /\ pc = "done"
    /\ response.reason = "LLM JSON parse failed"
    /\ calls = <<>> /\ files = {}


\* the canonical forms: "once", "<freq>", "<freq>@HH:MM"
IsFreq(s) == s # <<>> /\ \A i \in DOMAIN s : s[i] # "@"
IsHHMM(t) ==
    /\ Len(t) = 5
    /\ t[3] = ":"
    /\ \A i \in {1, 2, 4, 5} : t[i] \in DigitChars
Canonical(s) ==
    \/ IsFreq(s)
    \/ \E i \in DOMAIN s :
          /\ s[i] = "@"
          /\ IsFreq(SubSeq(s, 1, i - 1))
          /\ IsHHMM(SubSeq(s, i + 1, Len(s)))

parsed == _parse_schedule_string(cfg.schedule.text)
Daily(h, m) == [kind |-> "daily", hour |-> h, minute |-> m]
TriggerCallIssued == HasCallNamed({"triggers.create_or_update", "triggers.start"})
TimeOf(s) == SubSeq(s, Len(S_daily_at) + 1, Len(s))
DigitOf(c) == CHOOSE d \in 0..9 : Digits[d + 1] = c

\* C22: _parse_schedule_string gives no trigger for "once", "manual", "off", "disabled",
\* "none" and the empty schedule, {0, 0} for "daily", and for "daily@HH:MM" the hour
\* and minute clamped into 0..23 and 0..59 ("daily@01:30" gives {1, 30}, "daily@99:99"
\* gives {23, 59}), {0, 0} when the time does not parse; every trigger has its hour in
\* 0..23 and its minute in 0..59, and a remote trigger is created only when a trigger
\* is returned.
C22_ParsedScheduleInRange ==
    LET s == cfg.schedule.text
    IN  /\ s \in {S_once, S_manual, S_off, S_disabled, S_none, <<>>} => parsed = NoTrigger
        /\ s = S_daily => parsed = Daily(0, 0)
        /\ s = S_daily_at \o S_0130 => parsed = Daily(1, 30)
        /\ s = S_daily_at \o <<"9", "9", ":", "9", "9">> => parsed = Daily(23, 59)
        /\ (/\ Len(s) = Len(S_daily_at) + 5
            /\ SubSeq(s, 1, Len(S_daily_at)) = S_daily_at
            /\ TimeOf(s)[3] = ":"
            /\ \A i \in {1, 2, 4, 5} : TimeOf(s)[i] \in DigitChars)
              => parsed = Daily(Min(23, 10 * DigitOf(TimeOf(s)[1]) + DigitOf(TimeOf(s)[2])),
                                Min(59, 10 * DigitOf(TimeOf(s)[4]) + DigitOf(TimeOf(s)[5])))
        /\ s \in {S_daily_at \o t : t \in {<<"0", "1", "3", "0">>, <<"a", "b", ":", "c", "d">>,
                                         <<>>, <<":">>}} => parsed = Daily(0, 0)
        /\ parsed # NoTrigger => parsed.hour \in 0..23 /\ parsed.minute \in 0..59
        /\ TriggerCallIssued => parsed # NoTrigger /\ pc = "returned"

\* "daily@99:99": the trigger is created and started for 23:59
C22_Witness ==
    /\ pc = "returned"
    /\ cfg.schedule.text = S_daily_at \o <<"9", "9", ":", "9", "9">>
    /\ parsed = Daily(23, 59)
    /\ HasCall("triggers.start", "ok")
    /\ deploy_result.trigger_result = "started"


TriggerCallFailed ==
    HasCall("triggers.create_or_update", "fail") \/ HasCall("triggers.start", "fail")

\* the linked service `name` was found or created before the i-th call
EnsuredBefore(name, i) ==
    \E j \in 1..(i - 1) :
        /\ calls[j].target = name
        /\ calls[j].call \in {"linked_services.get", "linked_services.create_or_update"}
        /\ calls[j].outcome = "ok"

\* a call named c succeeded before the i-th call
SucceededBefore(c, i) == \E j \in 1..(i - 1) : calls[j].call = c /\ calls[j].outcome = "ok"

\* C34: deploy_to_adf keeps a strict order: the pipeline create-or-update is issued only
\* after both linked services were ensured successfully and the dataset step completed
\* without a failed call, and no linked service or dataset call follows it; the trigger
\* create-or-update is issued only after the pipeline create-or-update succeeded; the
\* trigger is started only after its create-or-update succeeded.
C34_DeployOrder ==
    \A i \in DOMAIN calls :
        /\ calls[i].call = "pipelines.create_or_update" =>
              /\ EnsuredBefore(deploy_blob_ls(cfg, env), i)
              /\ EnsuredBefore(deploy_snowflake_ls(cfg, env), i)
              /\ \A j \in 1..(i - 1) :
                    calls[j].call = "datasets.create_or_update" => calls[j].outcome = "ok"
              /\ \A j \in (i + 1)..Len(calls) :
                    calls[j].call \in {"triggers.create_or_update", "triggers.start"}
        /\ calls[i].call = "triggers.create_or_update" =>
              SucceededBefore("pipelines.create_or_update", i)
        /\ calls[i].call = "triggers.start" =>
              /\ i > 1
              /\ calls[i - 1] = Call("triggers.create_or_update", calls[i].target, "ok")

\* both linked services and both datasets created, then the pipeline, then the trigger
C34_Witness ==
    /\ pc = "returned"
    /\ deploy_result.status = "deployed"
    /\ HasCall("linked_services.create_or_update", "ok")
    /\ HasCall("datasets.create_or_update", "ok")
    /\ HasCall("pipelines.create_or_update", "ok")
    /\ HasCall("triggers.start", "ok")

\* C23: when creating or starting the trigger fails after the pipeline was created,
\* deploy_to_adf still returns `deployed`, with the failure recorded in trigger_result;
\* the failure raises nothing and the pipeline stays created.
C23_TriggerFailureKeepsDeployed ==
    (pc = "returned" /\ TriggerCallFailed)
        => /\ HasCall("pipelines.create_or_update", "ok")
           /\ exc = NONE
           /\ deploy_result.status = "deployed"
           /\ deploy_result.trigger_result = "error"
           /\ pipeline_name \in remote.pipelines

\* the trigger was created and its start failed
C23_Witness ==
    /\ pc = "returned"
    /\ HasCall("triggers.create_or_update", "ok")
    /\ HasCall("triggers.start", "fail")
    /\ deploy_result.status = "deployed"
    /\ deploy_result.trigger_result = "error"

----------------------------------------------------------------------------
(* Further claims about auto_fix_prereqs (SpecFix) *)

ActionsOf(item) == {i \in DOMAIN actions : actions[i].item = item}
CreateFailedFor(item) ==
    \E i \in DOMAIN calls :
        /\ calls[i].call = CreateCall(item).call
        /\ calls[i].target = CreateCall(item).target
        /\ calls[i].outcome # "ok"

\* C24: the four fix attempts of auto_fix_prereqs are independent: whichever creations
\* fail, each failure is recorded as an `error` action and every item the report lists
\* as missing still gets its own attempt, a creation when its inputs are there.
C24_FixAttemptsIndependent ==
    (pc = "returned" /\ HasCall("credential", "ok"))
        => \A item \in ItemSet \cap missing_items(initial_report) :
              /\ Cardinality(ActionsOf(item)) = 1
              /\ AbsentInputs(item) = {} =>
                    /\ CreateIssued(item)
                    /\ \A i \in ActionsOf(item) :
                          actions[i].status = IF CreateFailedFor(item) THEN "error" ELSE "created"

\* all four creations failed, each one attempted and recorded
C24_Witness ==
    /\ pc = "returned"
    /\ Len(actions) = 4
    /\ \A item \in ItemSet : CreateFailedFor(item)
    /\ \A i \in DOMAIN actions : actions[i].status = "error"

\* C25 (as claimed): every action auto_fix_prereqs emits has a status in {created,
\* skipped, error}; an item skipped for lack of input is reported with status `skipped`.
C25_ActionStatuses ==
    \A i \in DOMAIN actions : actions[i].status \in {"created", "skipped", "error"}

----------------------------------------------------------------------------
(* Specification of the artifact store over successive generate invocations: each
   step is the save of one invocation that got as far as save_pipeline_to_file *)

\* datetime.utcnow().strftime("%Y%m%d_%H%M%S") at successive seconds
Clock == <<"20261104_000000", "20261104_000001">>
Second(t) == CHOOSE i \in DOMAIN Clock : Clock[i] = t

\* the documents of the invocations: two pipeline names, two source kinds
StoreDocuments ==
    {[DocumentBase EXCEPT !.name = n, !.source = src] :
        n \in {CopyPipeline, <<"a">>},
        src \in {[type |-> W_blob, path |-> <<"adf-container", "sales.csv">>],
                 [type |-> W_json, path |-> <<"adf-container", "sales.json">>]}}

InitStore ==
    /\ race = NoRace
    /\ env = NoEnv
    /\ acct = NoAcct
    /\ uc = NoUc
    /\ remote = NoRemote
    /\ payload = [k \in CtxKeys |-> ABSENT]
    /\ ctx = [k \in CtxKeys |-> NONE]
    /\ initial_report = NoReport
    /\ pc = "idle"
    /\ stack = <<>>
    /\ items = <<>>
    /\ report = NoReport
    /\ actions = <<>>
    /\ fixed_any = FALSE
    /\ calls = <<>>
    /\ faults = 0
    /\ request = [op |-> "generate", requirement |-> TRUE, simulate |-> TRUE,
                  auto_fix |-> FALSE, now |-> Clock[1]]
    /\ raw = NoAnswer
    /\ cfg = NoConfig
    /\ missing_inputs = {}
    /\ final_report = NoReport
    /\ adf_json = NoArtifact
    /\ files = {}
    /\ exc = NONE
    /\ deploy_result = NoDeployResult
    /\ issues = <<>>
    /\ response = NoResponse

\* one invocation, not before the last one: build, validate, save
StoreSave ==
    /\ pc = "idle"
    /\ \E doc \in StoreDocuments, t \in Range(Clock) :
         /\ Second(t) >= Second(request.now)
         /\ request' = [request EXCEPT !.now = t]
         /\ raw' = [kind |-> "config", config |-> doc]
         /\ cfg' = call_llm_and_parse(doc, env)
         /\ adf_json' = create_copy_activity_pipeline(cfg')
         /\ validate_pipeline_hooks(adf_json')
         /\ files' = save_pipeline_to_file(files, adf_json', t)
         /\ response' = Response("validated", 200, "")
    /\ UNCHANGED <<race, env, acct, uc, remote, payload, ctx, initial_report, pc, stack,
                   missing_inputs, final_report, callee>>

NextStore == StoreSave

SpecStore == InitStore /\ [][NextStore]_vars

\* C26 (as claimed): the artifact store is append-only: after any sequence of
\* successful generate invocations every file written before still exists with its
\* original content; save_pipeline_to_file never overwrites a file of an earlier run,
\* runs with the same pipeline name included.
C26_ArtifactStoreAppendOnly == [][\A f \in files : f \in files']_vars


----------------------------------------------------------------------------
(* Claims about the remote calls of one invocation (Spec) *)

CreateOrUpdateCalls ==
    {"linked_services.create_or_update", "datasets.create_or_update",
     "pipelines.create_or_update", "triggers.create_or_update"}

\* the i-th call is a create-or-update that failed, and a later call issues it again
Reissued(i, j) ==
    /\ i < j
    /\ calls[i].call \in CreateOrUpdateCalls
    /\ calls[i].outcome # "ok"
    /\ calls[j].call = calls[i].call
    /\ calls[j].target = calls[i].target

\* C27: within one generate or precheck invocation no failed remote call is retried:
\* a create-or-update that failed is never issued a second time in the same
\* invocation, neither by the auto-fixer nor by the orchestrator.
C27_FailedCreateNotReissued ==
    \A i, j \in DOMAIN calls : ~Reissued(i, j)


----------------------------------------------------------------------------
(* Specification of two invocations ensuring the same remote object at the same time:
   ensure_blob_linked_service or ensure_blob_csv_dataset, one step per remote call *)

\* the object both invocations ensure
RaceName(kind) == IF kind = "ls" THEN BLOB_LS_DEFAULT ELSE SRC_DS_DEFAULT

\* the `props` each function sends: the parts that differ between invocations
blob_linked_service_props(storage_key) ==
    [type |-> "AzureBlobStorage", AccountKey |-> storage_key]
blob_csv_dataset_props(file_name) ==
    [type |-> "DelimitedText", fileName |-> file_name]
PropsOf(kind, value) ==
    IF kind = "ls" THEN blob_linked_service_props(value) ELSE blob_csv_dataset_props(value)

\* the storage key, or the file name, an invocation was given
RaceValues(kind) == IF kind = "ls" THEN {"", "key-1", "key-2"} ELSE {"a.csv", "b.csv"}

InitRace ==
    /\ env = NoEnv
    /\ acct = NoAcct
    /\ uc = NoUc
    /\ payload = [k \in CtxKeys |-> ABSENT]
    /\ ctx = [k \in CtxKeys |-> NONE]
    /\ initial_report = NoReport
    /\ pc = "idle"
    /\ stack = <<>>
    /\ items = <<>>
    /\ report = NoReport
    /\ actions = <<>>
    /\ fixed_any = FALSE
    /\ calls = <<>>
    /\ faults = MaxFaults
    /\ HandlerIdle
    /\ \E kind \in {"ls", "ds"}, there \in BOOLEAN :
         \E v \in [Invocations -> RaceValues(kind)] :
           /\ remote = [NoRemote EXCEPT ![kind] = IF there THEN {RaceName(kind)} ELSE {}]
           /\ race = [inv |-> [p \in Invocations |-> [pc |-> "probe", value |-> v[p]]],
                      kind |-> kind,
                      held |-> IF there
                               THEN <<PropsOf(kind, CHOOSE x \in RaceValues(kind) : x # "")>>
                               ELSE <<>>,
                      written |-> <<>>]

\* _ls_exists / _dataset_exists of invocation p, and the check of the credentials that
\* follows it in ensure_blob_linked_service
ensure_probe(p) ==
    /\ race.inv[p].pc = "probe"
    /\ \E o \in Outcomes(IF RaceName(race.kind) \in remote[race.kind]
                         THEN {"ok"} ELSE {"absent"}) :
         /\ calls' = Append(calls, Call(IF race.kind = "ls" THEN "linked_services.get"
                                        ELSE "datasets.get", RaceName(race.kind), o))
         /\ faults' = IF o = "fail" THEN faults - 1 ELSE faults
         /\ race' = [race EXCEPT !.inv[p].pc =
                        IF o = "ok" THEN "returned"
                        ELSE IF race.kind = "ls" /\ race.inv[p].value = "" THEN "blocked"
                        ELSE "create"]
    /\ UNCHANGED <<env, acct, uc, remote, payload, ctx, initial_report, pc, stack, items,
                   report, actions, fixed_any, handler>>

\* create_or_update sent as create-only: the service refuses it when the object is there
ensure_create_IfAbsent(p) ==
    /\ race.inv[p].pc = "create"
    /\ \E o \in Outcomes(IF RaceName(race.kind) \in remote[race.kind]
                         THEN {"conflict"} ELSE {"ok"}) :
         /\ calls' = Append(calls, Call(IF race.kind = "ls"
                                        THEN "linked_services.create_or_update"
                                        ELSE "datasets.create_or_update",
                                        RaceName(race.kind), o))
         /\ faults' = IF o = "fail" THEN faults - 1 ELSE faults
         /\ IF o = "ok"
            THEN /\ remote' = [remote EXCEPT ![race.kind] = @ \cup {RaceName(race.kind)}]
                 /\ race' = [race EXCEPT
                                !.inv[p].pc = "returned",
                                !.held = <<PropsOf(race.kind, race.inv[p].value)>>,
                                !.written = Append(@, [by |-> p,
                                                       props |-> PropsOf(race.kind,
                                                                         race.inv[p].value)])]
            ELSE /\ race' = [race EXCEPT !.inv[p].pc = "raised"]
                 /\ UNCHANGED remote
    /\ UNCHANGED <<env, acct, uc, payload, ctx, initial_report, pc, stack, items,
                   report, actions, fixed_any, handler>>

\* create_or_update of invocation p: the service stores what it is sent
ensure_create(p) ==
    /\ race.inv[p].pc = "create"
    /\ \E o \in Outcomes({"ok"}) :
         /\ calls' = Append(calls, Call(IF race.kind = "ls"
                                        THEN "linked_services.create_or_update"
                                        ELSE "datasets.create_or_update",
                                        RaceName(race.kind), o))
         /\ faults' = IF o = "fail" THEN faults - 1 ELSE faults
         /\ IF o = "ok"
            THEN /\ remote' = [remote EXCEPT ![race.kind] = @ \cup {RaceName(race.kind)}]
                 /\ race' = [race EXCEPT
                                !.inv[p].pc = "returned",
                                !.held = <<PropsOf(race.kind, race.inv[p].value)>>,
                                !.written = Append(@, [by |-> p,
                                                       props |-> PropsOf(race.kind,
                                                                         race.inv[p].value)])]
            ELSE /\ race' = [race EXCEPT !.inv[p].pc = "raised"]
                 /\ UNCHANGED remote
    /\ UNCHANGED <<env, acct, uc, payload, ctx, initial_report, pc, stack, items,
                   report, actions, fixed_any, handler>>

EnsureProbe == \E p \in Invocations : ensure_probe(p)
EnsureCreate == \E p \in Invocations : ensure_create(p)

NextRace == EnsureProbe \/ EnsureCreate

SpecRace == InitRace /\ [][NextRace]_vars


\* invocation p has not returned yet
Running(p) == race.inv[p].pc \in {"probe", "create"}

\* both invocations found the object absent
BothSawAbsent ==
    \E i, j \in DOMAIN calls :
        /\ i < j
        /\ calls[i].call \in {"linked_services.get", "datasets.get"}
        /\ calls[j].call = calls[i].call
        /\ calls[i].outcome = "absent"
        /\ calls[j].outcome = "absent"

\* C28: two concurrent invocations ensuring the same linked service or dataset may both
\* find it absent and both issue create-or-update; in every interleaving each invocation
\* can always take its next step until it has returned, none fails unless its own
\* create-or-update failed, and after the writes the service holds the definition of
\* the last create-or-update.
C28_ConcurrentEnsureConverges ==
    /\ \A p \in Invocations : Running(p) => ENABLED (ensure_probe(p) \/ ensure_create(p))
    /\ \A p \in Invocations :
          race.inv[p].pc = "raised"
              => \/ HasCall("linked_services.create_or_update", "fail")
                 \/ HasCall("datasets.create_or_update", "fail")
    /\ race.written # <<>> => race.held = <<Last(race.written).props>>

C28_Witness ==
    /\ BothSawAbsent
    /\ \A p \in Invocations : race.inv[p].pc = "returned"
    /\ Len(race.written) = 2
    /\ race.written[1].props # race.written[2].props
    /\ race.held = <<race.written[2].props>>


----------------------------------------------------------------------------
(* Claims about the generated document within generate (Spec) *)

Built == "properties" \in DOMAIN adf_json
Overridden == "dataset_name" \in DOMAIN cfg.source \/ "dataset_name" \in DOMAIN cfg.sink

\* generate has answered a deploying request whose context holds every input, against
\* a provisioned subscription, with the interpretation and every call succeeding
ScenarioA ==
    /\ pc = "done"
    /\ request.op = "generate"
    /\ request.requirement
    /\ ~request.simulate
    /\ raw.kind = "config"
    /\ \A k \in InputKeys : Truthy(get(ctx, k))
    /\ \A i \in DOMAIN calls : calls[i].outcome # "fail"
    /\ AllInfra \subseteq remote.infra

\* the dataset names the copy activity of the artifact refers to
ArtifactSourceDataset == adf_json.properties.activities.items[1].inputs[1]
ArtifactSinkDataset == adf_json.properties.activities.items[1].outputs[1]

\* C38: the dataset names the artifact refers to are the names check_prerequisites
\* probes and auto_fix_prereqs creates, and the names deploy_to_adf ensures, whatever
\* dataset_name the config gives and whatever names the context overrides.
C38_DatasetNamesAgree ==
    Built =>
        /\ ArtifactSourceDataset = source_dataset_name(ctx)
        /\ ArtifactSourceDataset = deploy_source_ds(cfg, ctx)
        /\ ArtifactSinkDataset = sink_dataset_name(ctx)
        /\ ArtifactSinkDataset = deploy_sink_ds(cfg, ctx)

\* the steps of check_prerequisites
CheckSteps ==
    {"chk_sanity", "chk_clients", "chk_subscription", "chk_providers", "chk_resource_group",
     "chk_data_factory", "chk_storage", "chk_linked_services", "chk_datasets"}

\* every remote object of before the step is there after it
RemoteGrows ==
    /\ remote.infra \subseteq remote'.infra
    /\ remote.ls \subseteq remote'.ls
    /\ remote.ds \subseteq remote'.ds
    /\ remote.pipelines \subseteq remote'.pipelines
    /\ remote.triggers \subseteq remote'.triggers
    /\ remote.started \subseteq remote'.started

\* the step issues get and list calls only and leaves the remote state as it was
StepReadOnly ==
    /\ remote' = remote
    /\ Len(calls') >= Len(calls)
    /\ \A i \in (Len(calls) + 1)..Len(calls') : calls'[i].call \notin MutatingCalls

\* C39: check_prerequisites is read-only: every step of it issues get and list calls only
\* and leaves the remote state as it was; and no step of any operation deletes a remote
\* object: the remote objects only grow.
C39_CheckReadOnlyRemoteGrows ==
    [][RemoteGrows /\ (pc \in CheckSteps => StepReadOnly)]_vars

\* C39 witness: generate deployed after a check that listed the datasets, into a factory
\* that had its linked services, which are still there beside the datasets created.
C39_Witness ==
    /\ pc = "done"
    /\ response.status = "deployed"
    /\ HasCall("datasets.list_by_factory", "ok")
    /\ HasCall("datasets.create_or_update", "ok")
    /\ ~HasCall("linked_services.create_or_update", "ok")
    /\ {BLOB_LS_DEFAULT, SNOWFLAKE_LS_DEFAULT} \subseteq remote.ls
    /\ Cardinality(remote.ds) >= 2

\* auto_fix_prereqs returned an action with status created
AnyCreated == \E i \in DOMAIN actions : actions[i].status = "created"

\* check_prerequisites ran again after a create-or-update: it acquired its credential
\* after that call
SecondCheckRan ==
    \E i \in DOMAIN calls : \E j \in 1..(i - 1) :
        /\ calls[j].call \in MutatingCalls
        /\ calls[i].call = "credential"

\* the handler has its final report after auto_fix_prereqs returned: generate is about to
\* build the document, precheck has answered a request that asked for the fixes
FinalDecided ==
    \/ pc = "gen_build"
    \/ /\ pc = "done"
       /\ request.op = "precheck"
       /\ request.auto_fix
       /\ response.status = "ok"

\* C40: fixed_any is true exactly when auto_fix_prereqs returned an action with status
\* created; in generate and in precheck the final report is the report of a second
\* check_prerequisites, run after the fixes, exactly when fixed_any is true, and the
\* initial report otherwise, no second check having run.
C40_FinalReportFreshIffFixed ==
    FinalDecided =>
        /\ fixed_any <=> AnyCreated
        /\ IF fixed_any
           THEN SecondCheckRan /\ final_report = report /\ final_report.items # <<>>
           ELSE ~SecondCheckRan /\ final_report = initial_report

\* C40 witness: generate has its final report after the blob linked service, missing in
\* the initial report, was created: the final report has it present.
C40_Witness ==
    /\ pc = "gen_build"
    /\ fixed_any
    /\ "blob_linked_service" \in missing_items(initial_report)
    /\ HasItemStatus(final_report.items, "blob_linked_service", "present")
    /\ final_report # initial_report

\* C29: every generated document holds exactly one activity, named CopyActivity, of type
\* Copy, with the fixed retry policy, whose single input references the configuration's
\* source dataset name when one is supplied and SourceDataset otherwise, and whose single
\* output does the same for the sink with SinkDataset; with a fully populated context
\* and no overrides generate answers `deployed` with that activity referencing the
\* default names.
C29_SingleCopyActivity ==
    /\ Built =>
         /\ Len(adf_json.properties.activities.items) = 1
         /\ adf_json.properties.activities.items[1].name = "CopyActivity"
         /\ adf_json.properties.activities.items[1].type = "Copy"
         /\ adf_json.properties.activities.items[1].policy =
               [timeout |-> "7.00:00:00", retry |-> 2, retryIntervalInSeconds |-> 30,
                secureOutput |-> FALSE, secureInput |-> FALSE]
         /\ adf_json.properties.activities.items[1].inputs =
               <<IF "dataset_name" \in DOMAIN cfg.source
                 THEN cfg.source.dataset_name ELSE "SourceDataset">>
         /\ adf_json.properties.activities.items[1].outputs =
               <<IF "dataset_name" \in DOMAIN cfg.sink
                 THEN cfg.sink.dataset_name ELSE "SinkDataset">>
    /\ (ScenarioA /\ ~Overridden) =>
         /\ response.status = "deployed"
         /\ Built
         /\ adf_json.properties.activities.items[1].inputs = <<"SourceDataset">>
         /\ adf_json.properties.activities.items[1].outputs = <<"SinkDataset">>

C29_Witness ==
    /\ ScenarioA
    /\ ~Overridden
    /\ response.status = "deployed"
    /\ Len(adf_json.properties.activities.items) = 1


----------------------------------------------------------------------------
(* Specification of validate_pipeline_hooks on any document: the documents of the
   generator and the documents it would never build *)

\* activities with or without a name and a type
HookActivities ==
    {[k \in K \cup {"description"} |->
         IF k = "name" THEN n ELSE IF k = "type" THEN t ELSE ""] :
        K \in SUBSET {"name", "type"}, n \in {"CopyActivity", "Load"}, t \in {"Copy", "Custom"}}

\* what "properties" may hold: no activities key, a value that is no list, a list of
\* up to two activities
HookProperties ==
    {[annotations |-> <<>>]}
    \cup {[annotations |-> <<>>, activities |-> v] :
            v \in {NotList, List(<<>>)}
                  \cup {List(<<a>>) : a \in HookActivities}
                  \cup {List(<<a, b>>) : a \in HookActivities, b \in HookActivities}}

HookDocuments ==
    {[name |-> CopyPipeline, properties |-> p] : p \in HookProperties}
    \cup {[properties |-> p] : p \in HookProperties}
    \cup {[name |-> CopyPipeline, annotations |-> <<>>], [annotations |-> <<>>]}

InitHooks ==
    /\ race = NoRace
    /\ env = NoEnv
    /\ acct = NoAcct
    /\ uc = NoUc
    /\ remote = NoRemote
    /\ payload = [k \in CtxKeys |-> ABSENT]
    /\ ctx = [k \in CtxKeys |-> NONE]
    /\ initial_report = NoReport
    /\ pc = "hooks"
    /\ stack = <<>>
    /\ items = <<>>
    /\ report = NoReport
    /\ actions = <<>>
    /\ fixed_any = FALSE
    /\ calls = <<>>
    /\ faults = 0
    /\ request = NoRequest
    /\ raw = NoAnswer
    /\ cfg = NoConfig
    /\ missing_inputs = {}
    /\ final_report = NoReport
    /\ adf_json \in HookDocuments
    /\ files = {}
    /\ exc = NONE
    /\ deploy_result = NoDeployResult
    /\ issues = <<>>
    /\ response = NoResponse

\* ok, msg = validate_pipeline_hooks(adf_json), and what generate answers when not ok
HooksValidate ==
    /\ pc = "hooks"
    /\ response' = IF validate_pipeline_hooks(adf_json)
                   THEN Response("validated", 200, "")
                   ELSE ErrorResponse(400, "ADF JSON validation failed", "")
    /\ pc' = "hooks_done"
    /\ UNCHANGED <<race, env, acct, uc, remote, payload, ctx, initial_report, stack, request,
                   raw, cfg, missing_inputs, final_report, adf_json, files, callee>>

NextHooks == HooksValidate

SpecHooks == InitHooks /\ [][NextHooks]_vars

\* the activities of the document, none when the key is absent or holds no list
ListedActivities ==
    IF "properties" \in DOMAIN adf_json /\ "activities" \in DOMAIN adf_json.properties
    THEN adf_json.properties.activities.items ELSE <<>>

LacksKeys == ~({"name", "properties"} \subseteq DOMAIN adf_json)
NoActivityList ==
    \/ ListedActivities = <<>>
    \/ ~adf_json.properties.activities.list
ActivityLacksKeys ==
    \E i \in DOMAIN ListedActivities :
        "name" \notin DOMAIN ListedActivities[i] \/ "type" \notin DOMAIN ListedActivities[i]
SharedName ==
    \E i, j \in DOMAIN ListedActivities :
        /\ i # j
        /\ "name" \in DOMAIN ListedActivities[i]
        /\ "name" \in DOMAIN ListedActivities[j]
        /\ ListedActivities[i].name = ListedActivities[j].name

\* C30: validate_pipeline_hooks answers ok=false exactly when the document lacks name or
\* properties, its activities are empty or no list, some activity lacks name or type,
\* or two activities share a name; any other document is ok, an unknown activity type
\* included.
C30_HooksRejectExactly ==
    pc = "hooks_done" =>
        (response.status = "error"
            <=> (LacksKeys \/ NoActivityList \/ ActivityLacksKeys \/ SharedName))

\* two activities of different names, one of an unknown type: accepted
C30_Witness ==
    /\ pc = "hooks_done"
    /\ response.status = "validated"
    /\ Len(ListedActivities) = 2
    /\ \E i \in DOMAIN ListedActivities : ListedActivities[i].type = "Custom"


----------------------------------------------------------------------------
(* utils/auto_corrector.py and the decoding step of call_llm_and_parse.
   A response is a sequence of tokens: the braces, the brackets and the comma,
   blanks and line breaks, the fences, and atoms that hold none of these: a member
   with a scalar value ("name" for "name": "..."), a key with its colon ("source:"),
   a scalar array element, a word of prose. *)

\* the fence that opens a json block and the plain fence, three backquotes each, written
\* with apostrophes
Fences == {"'''json", "'''"}
MemberAtoms == {"pipeline_type", "name", "type", "path", "table", "dataset_name", "schedule",
                "frequency", "time"}
KeyAtoms == {"source:", "sink:", "schedule:", "transformation:", "options:"}

RECURSIVE Without(_, _)
Without(s, drop) ==
    IF s = <<>> THEN <<>>
    ELSE (IF Head(s) \in drop THEN <<>> ELSE <<Head(s)>>) \o Without(Tail(s), drop)

\* from the character after an inner opening brace: the index of the brace that closes
\* it when no other brace comes before, 0 otherwise
RECURSIVE FlatEnd(_, _)
FlatEnd(text, j) ==
    IF j > Len(text) THEN 0
    ELSE IF text[j] = "}" THEN j
    ELSE IF text[j] = "{" THEN 0
    ELSE FlatEnd(text, j + 1)

\* from the character after the opening brace: the index of the closing brace that ends
\* the match of the pattern (characters other than braces and inner blocks that hold no
\* brace), 0 when there is no match from that opening
RECURSIVE BlockEnd(_, _)
BlockEnd(text, j) ==
    IF j > Len(text) THEN 0
    ELSE IF text[j] = "}" THEN j
    ELSE IF text[j] = "{"
         THEN IF FlatEnd(text, j + 1) = 0 THEN 0 ELSE BlockEnd(text, FlatEnd(text, j + 1) + 1)
    ELSE BlockEnd(text, j + 1)

\* re.search: the match at the first position that has one, <<>> when there is none
RECURSIVE search_block(_, _)
search_block(text, i) ==
    IF i > Len(text) THEN <<>>
    ELSE IF text[i] = "{" /\ BlockEnd(text, i + 1) # 0 THEN SubSeq(text, i, BlockEnd(text, i + 1))
    ELSE search_block(text, i + 1)

\* re.sub of a comma, any whitespace and a closing bracket or brace by the latter
RECURSIVE fix_trailing_commas(_)
fix_trailing_commas(s) ==
    IF s = <<>> THEN <<>>
    ELSE IF /\ Head(s) = ","
            /\ lstrip(Tail(s)) # <<>>
            /\ Head(lstrip(Tail(s))) \in {"]", "}"}
         THEN fix_trailing_commas(lstrip(Tail(s)))
    ELSE <<Head(s)>> \o fix_trailing_commas(Tail(s))

\* a variant that leaves the trailing commas in
auto_correct_json_KeepsCommas(raw_text) ==
    LET text == strip(Without(raw_text, Fences))
    IN  IF search_block(text, 1) = <<>> THEN <<"{", "}">>
        ELSE Without(search_block(text, 1), {"\n"})

auto_correct_json(raw_text) ==
    LET text == strip(Without(raw_text, Fences))
    IN  IF search_block(text, 1) = <<>> THEN <<"{", "}">>
        ELSE Without(fix_trailing_commas(search_block(text, 1)), {"\n"})

\* json.loads, the grammar: each operator is given the index where its part starts in
\* the text without whitespace and answers the index after the part, 0 when the text
\* does not parse
RECURSIVE ParseValue(_, _), ParseMembers(_, _), ParseElements(_, _)
ParseValue(t, i) ==
    IF i > Len(t) THEN 0
    ELSE IF t[i] = "v" THEN i + 1
    ELSE IF t[i] = "{"
         THEN IF i + 1 <= Len(t) /\ t[i + 1] = "}" THEN i + 2 ELSE ParseMembers(t, i + 1)
    ELSE IF t[i] = "["
         THEN IF i + 1 <= Len(t) /\ t[i + 1] = "]" THEN i + 2 ELSE ParseElements(t, i + 1)
    ELSE 0
ParseMembers(t, i) ==
    LET j == IF i > Len(t) THEN 0
             ELSE IF t[i] \in MemberAtoms THEN i + 1
             ELSE IF t[i] \in KeyAtoms THEN ParseValue(t, i + 1)
             ELSE 0
    IN  IF j = 0 \/ j > Len(t) THEN 0
        ELSE IF t[j] = "}" THEN j + 1
        ELSE IF t[j] = "," THEN ParseMembers(t, j + 1)
        ELSE 0
ParseElements(t, i) ==
    LET j == ParseValue(t, i)
    IN  IF j = 0 \/ j > Len(t) THEN 0
        ELSE IF t[j] = "]" THEN j + 1
        ELSE IF t[j] = "," THEN ParseElements(t, j + 1)
        ELSE 0

\* json.loads: the value is the text without its whitespace
json_loads(s) ==
    LET t == Without(s, Whitespace)
    IN  IF ParseValue(t, 1) = Len(t) + 1
        THEN [status |-> "decoded", value |-> t]
        ELSE [status |-> "JSONDecodeError", value |-> <<>>]


----------------------------------------------------------------------------
(* Specification of the repair and decoding of one response of the text-generation
   service *)

\* configuration objects as the service may write them, without whitespace: the fields
\* of a PipelineConfig, the schedule a string or an object, the transformation a list
\* of scalars or of objects
ConfigTexts ==
    {<<"{", "pipeline_type", ",", "name", ",", "source:", "{", "type", ",", "path", "}", ",",
       "sink:", "{", "type", ",", "table", "}", ",", "schedule", "}">>,
     <<"{", "source:", "{", "type", ",", "path", ",", "dataset_name", "}", ",",
       "sink:", "{", "type", ",", "table", "}", ",",
       "schedule:", "{", "frequency", ",", "time", "}", "}">>,
     <<"{", "pipeline_type", ",", "source:", "{", "type", "}", ",", "sink:", "{", "type", "}",
       ",", "schedule", ",", "transformation:", "[", "v", ",", "v", "]", "}">>,
     <<"{", "name", ",", "source:", "{", "type", ",", "path", "}", ",",
       "sink:", "{", "type", ",", "table", "}", ",", "schedule", ",",
       "transformation:", "[", "{", "type", "}", ",", "{", "type", "}", "]", "}">>}

\* objects with an object inside an inner object
DeepTexts ==
    {<<"{", "name", ",", "source:", "{", "type", ",", "options:", "{", "path", "}", "}", ",",
       "sink:", "{", "type", ",", "table", "}", ",", "schedule", "}">>,
     <<"{", "source:", "{", "type", "}", ",",
       "sink:", "{", "type", ",", "options:", "{", "table", "}", "}", ",", "schedule", "}">>}

Closers == {"]", "}"}

\* the text with a comma before its last closing brace, or before every closing brace
\* and bracket
RECURSIVE WithTrailingCommas(_, _)
WithTrailingCommas(t, all) ==
    IF t = <<>> THEN <<>>
    ELSE (IF Head(t) \in Closers /\ (all \/ Len(t) = 1) THEN <<",", Head(t)>> ELSE <<Head(t)>>)
         \o WithTrailingCommas(Tail(t), all)

\* the text laid out on lines
RECURSIVE Pretty(_)
Pretty(t) ==
    IF t = <<>> THEN <<>>
    ELSE (IF Head(t) \in Closers THEN <<"\n", Head(t)>>
          ELSE IF Head(t) \in {"{", "[", ","} THEN <<Head(t), "\n", " ">>
          ELSE IF Head(t) \in KeyAtoms THEN <<Head(t), " ">>
          ELSE <<Head(t)>>)
         \o Pretty(Tail(t))

\* the ways the service wraps the object
Wrapped(t) ==
    {t,
     <<"'''json", "\n">> \o t \o <<"\n", "'''">>,
     <<"'''", "\n">> \o t \o <<"\n", "'''", "\n">>,
     <<"Here", " ", "'''json", "\n">> \o t \o <<"\n", "'''", "\n", "Here">>}

Responses(c) ==
    UNION {Wrapped(u) \cup Wrapped(Pretty(u)) :
              u \in {c, WithTrailingCommas(c, FALSE), WithTrailingCommas(c, TRUE)}}

InitRepair ==
    /\ race = NoRace
    /\ env = NoEnv
    /\ acct = NoAcct
    /\ uc = NoUc
    /\ remote = NoRemote
    /\ payload = [k \in CtxKeys |-> ABSENT]
    /\ ctx = [k \in CtxKeys |-> NONE]
    /\ initial_report = NoReport
    /\ pc = "llm_answered"
    /\ stack = <<>>
    /\ items = <<>>
    /\ report = NoReport
    /\ actions = <<>>
    /\ fixed_any = FALSE
    /\ calls = <<>>
    /\ faults = 0
    /\ request = NoRequest
    /\ \E c \in ConfigTexts \cup DeepTexts : \E r \in Responses(c) :
         raw = [kind |-> "text", config |-> c, text |-> r, corrected |-> <<>>]
    /\ cfg = NoConfig
    /\ missing_inputs = {}
    /\ final_report = NoReport
    /\ adf_json = NoArtifact
    /\ files = {}
    /\ exc = NONE
    /\ deploy_result = NoDeployResult
    /\ issues = <<>>
    /\ response = NoResponse

\* corrected = auto_correct_json(raw)
RepairCorrect ==
    /\ pc = "llm_answered"
    /\ raw' = [raw EXCEPT !.corrected = auto_correct_json(raw.text)]
    /\ pc' = "corrected"
    /\ UNCHANGED <<race, env, acct, uc, remote, payload, ctx, initial_report, stack, request,
                   cfg, missing_inputs, final_report, adf_json, files, response, callee>>

\* cfg = json.loads(corrected), and the answer of generate when it raises
RepairDecode ==
    /\ pc = "corrected"
    /\ cfg' = json_loads(raw.corrected)
    /\ response' = IF json_loads(raw.corrected).status = "decoded" THEN response
                   ELSE ErrorResponse(400, "Invalid structured output from LLM",
                                      InterpretError("malformed"))
    /\ pc' = IF json_loads(raw.corrected).status = "decoded" THEN "decoded" ELSE "done"
    /\ UNCHANGED <<race, env, acct, uc, remote, payload, ctx, initial_report, stack, request,
                   raw, missing_inputs, final_report, adf_json, files, callee>>

NextRepair == RepairCorrect \/ RepairDecode

SpecRepair == InitRepair /\ [][NextRepair]_vars

Fenced == \E i \in DOMAIN raw.text : raw.text[i] \in Fences
TrailingComma ==
    \E i \in DOMAIN raw.text :
        /\ raw.text[i] = ","
        /\ lstrip(SubSeq(raw.text, i + 1, Len(raw.text))) # <<>>
        /\ Head(lstrip(SubSeq(raw.text, i + 1, Len(raw.text)))) \in Closers
RepairDone == pc \in {"decoded", "done"}

\* C33: a response that wraps a valid configuration object in fences and has a trailing
\* comma inside the object is repaired by auto_correct_json into text that decodes, and
\* decodes to that configuration.
C33_FencedTrailingCommaDecodes ==
    (RepairDone /\ raw.config \in ConfigTexts /\ Fenced /\ TrailingComma)
        => /\ pc = "decoded"
           /\ cfg.status = "decoded"
           /\ cfg.value = raw.config

\* prose, a json fence, a comma before every closing brace and bracket, laid out on lines
C33_Witness ==
    /\ pc = "decoded"
    /\ raw.config \in ConfigTexts
    /\ raw.text[1] = "Here"
    /\ Fenced
    /\ TrailingComma
    /\ "\n" \in Range(raw.text)
    /\ "[" \in Range(raw.config)
    /\ cfg.value = raw.config


\* C37: auto_correct_json extracts the complete outermost balanced block of the
\* response as the decoding candidate, whatever the nesting depth of the objects inside
\* it: the corrected text is the whole configuration object, never an object inside it.
C37_OutermostBlockExtracted ==
    pc # "llm_answered" => Without(raw.corrected, Whitespace) = raw.config

====
